---- MODULE Spec2Model ----
(***************************************************************************)
(* A model of env-doctor-cli's parsing and reconciliation core: the        *)
(* validation primitives (validation.ts), the line parser (parser.ts),     *)
(* the analyzer (analyzer.ts), the fixer (fixer.ts) and the example        *)
(* generator (generator.ts), over a small file system with symbolic links. *)
(*                                                                         *)
(* A JavaScript string is a sequence of one-character strings; undefined   *)
(* and null in a string's place are one-element sequences whose element is *)
(* no character, and null in an object's place is a record of its own.     *)
(***************************************************************************)
EXTENDS Integers, Sequences, FiniteSets, TLC

VARIABLES
  \* parseEnv: the text, the number of lines consumed, the loop's state
  content, index, currentCommentBlock, variables, warnings, parseResult,
  \* analyzeEnv: its two arguments and its return value
  target, template, diff,
  \* fixEnv / generateExample: the disk, the call in progress and its outcome
  disk, call, outcome, written

parserVars   == <<content, index, currentCommentBlock, variables, warnings, parseResult>>
analyzerVars == <<target, template, diff>>
fileVars     == <<disk, call, outcome, written>>
vars         == <<content, index, currentCommentBlock, variables, warnings, parseResult,
                  target, template, diff, disk, call, outcome, written>>

-----------------------------------------------------------------------------
(* JavaScript values and string primitives                                 *)

\* undefined and null where the code expects a string
Undefined == <<"<undefined>">>
NullArg   == <<"<null>">>
\* null where the code expects an object, and a return value not yet produced
Null      == [null |-> TRUE]
NotYet    == [pending |-> TRUE]

IsString(v) == v # Undefined /\ v # NullArg

\* two characters that have no TLA+ string literal: U+0060 and U+0000
BackTick == "<backtick>"
NulChar  == "<NUL>"

\* String(undefined), as a template literal interpolates it
UndefinedText == <<"u","n","d","e","f","i","n","e","d">>

LowerCase == <<"a","b","c","d","e","f","g","h","i","j","k","l","m",
               "n","o","p","q","r","s","t","u","v","w","x","y","z">>
UpperCase == <<"A","B","C","D","E","F","G","H","I","J","K","L","M",
               "N","O","P","Q","R","S","T","U","V","W","X","Y","Z">>
Digits    == {"0","1","2","3","4","5","6","7","8","9"}

Range(f) == {f[i] : i \in DOMAIN f}
Letters  == Range(LowerCase) \cup Range(UpperCase)

SetMin(S) == CHOOSE m \in S : \A n \in S : m <= n
SetMax(S) == CHOOSE m \in S : \A n \in S : m >= n

\* String.prototype.toUpperCase on one character
UpperChar(c) ==
  IF c \in Range(LowerCase)
    THEN UpperCase[CHOOSE i \in 1..26 : LowerCase[i] = c]
    ELSE c
ToUpperCase(s) == [i \in 1..Len(s) |-> UpperChar(s[i])]

\* the characters String.prototype.trim removes and \s matches
IsWhitespace(c) == c \in {" ", "\t", "\r", "\n"}
\* the characters the regular expression `.` does not match
IsLineTerminator(c) == c \in {"\n", "\r"}

Trim(s) ==
  LET keep == {i \in 1..Len(s) : ~IsWhitespace(s[i])}
  IN  IF s = <<>> THEN <<>>
      \* nothing to remove at either end
      ELSE IF ~IsWhitespace(s[1]) /\ ~IsWhitespace(s[Len(s)]) THEN s
      ELSE IF keep = {} THEN <<>> ELSE SubSeq(s, SetMin(keep), SetMax(keep))

StartsWith(s, p) == Len(p) <= Len(s) /\ SubSeq(s, 1, Len(p)) = p
EndsWith(s, p)   == Len(p) <= Len(s) /\ SubSeq(s, Len(s) - Len(p) + 1, Len(s)) = p
\* s.substring(from) with a 1-based first position
From(s, from)    == SubSeq(s, from, Len(s))
\* s.indexOf(c) and s.lastIndexOf(c), 1-based, 0 when c does not occur
IndexOf(s, c) ==
  LET at == {i \in 1..Len(s) : s[i] = c} IN IF at = {} THEN 0 ELSE SetMin(at)
LastIndexOf(s, c) ==
  LET at == {i \in 1..Len(s) : s[i] = c} IN IF at = {} THEN 0 ELSE SetMax(at)
\* s.includes(p)
Includes(s, p) ==
  \E i \in 1..(Len(s) - Len(p) + 1) : SubSeq(s, i, i + Len(p) - 1) = p

RECURSIVE Join(_, _)
\* Array.prototype.join
Join(parts, sep) ==
  IF parts = <<>> THEN <<>>
  ELSE IF Len(parts) = 1 THEN parts[1]
  ELSE parts[1] \o sep \o Join(Tail(parts), sep)

RECURSIVE SortedSeq(_)
SortedSeq(S) == IF S = {} THEN <<>> ELSE <<SetMin(S)>> \o SortedSeq(S \ {SetMin(S)})

\* content.split(/\r?\n/): cut at every "\n", dropping one "\r" right before it
SplitLines(text) ==
  LET nl == SortedSeq({i \in 1..Len(text) : text[i] = "\n"})
      n  == Len(nl)
      first(j) == IF j = 1 THEN 1 ELSE nl[j - 1] + 1
      last(j)  == IF j = n + 1 THEN Len(text)
                  ELSE IF nl[j] > first(j) /\ text[nl[j] - 1] = "\r" THEN nl[j] - 2
                  ELSE nl[j] - 1
  IN  [j \in 1..(n + 1) |-> SubSeq(text, first(j), last(j))]

-----------------------------------------------------------------------------
(* validation.ts                                                           *)

MAX_LINE_LENGTH == 10000

DangerousNames ==
  { <<"_","_","P","R","O","T","O","_","_">>,
    <<"C","O","N","S","T","R","U","C","T","O","R">>,
    <<"P","R","O","T","O","T","Y","P","E">> }

\* /^[A-Z_][A-Z0-9_]*$/i
MatchesValidVarName(s) ==
  /\ Len(s) >= 1
  /\ s[1] \in Letters \cup {"_"}
  /\ \A i \in 2..Len(s) : s[i] \in Letters \cup Digits \cup {"_"}

validateVarName_noDangerCheck(varName) ==
  IsString(varName) /\ varName # <<>> /\ MatchesValidVarName(varName)

validateVarName(varName) ==
  /\ IsString(varName) /\ varName # <<>>
  /\ MatchesValidVarName(varName)
  /\ ToUpperCase(varName) \notin DangerousNames

\* TRUE when validateLineLength returns, FALSE when it throws
validateLineLength_offByOne(line) == Len(line) < MAX_LINE_LENGTH

validateLineLength(line) == ~(Len(line) > MAX_LINE_LENGTH)

\* one of SUSPICIOUS_PATTERNS of the shape  <open> .* <close>
OpenThenClose(s, open, close) ==
  \E i \in 1..(Len(s) - Len(open)) :
    /\ SubSeq(s, i, i + Len(open) - 1) = open
    /\ \E j \in (i + Len(open))..Len(s) :
         /\ SubSeq(s, j, j + Len(close) - 1) = close
         /\ \A k \in (i + Len(open))..(j - 1) : ~IsLineTerminator(s[k])

\* <sep> .* rm \s , case-insensitive
ThenRm(s, sep) ==
  \E i \in 1..(Len(s) - Len(sep) - 2) :
    /\ SubSeq(s, i, i + Len(sep) - 1) = sep
    /\ \E j \in (i + Len(sep))..(Len(s) - 2) :
         /\ ToUpperCase(SubSeq(s, j, j + 1)) = <<"R","M">>
         /\ IsWhitespace(s[j + 2])
         /\ \A k \in (i + Len(sep))..(j - 1) : ~IsLineTerminator(s[k])

\* TRUE when checkSuspiciousContent returns a warning, FALSE when it returns null
checkSuspiciousContent(s) ==
  \/ OpenThenClose(s, <<"$","(">>, <<")">>)
  \/ OpenThenClose(s, <<BackTick>>, <<BackTick>>)
  \/ Includes(ToUpperCase(s), <<"<","S","C","R","I","P","T",">">>)
  \/ ThenRm(s, <<";">>)
  \/ ThenRm(s, <<"&","&">>)
  \/ ThenRm(s, <<"|","|">>)

-----------------------------------------------------------------------------
(* parser.ts: parseEnv                                                     *)

\* a Record<string, EnvVar> is the sequence of its own entries in insertion
\* order, which is the order Object.keys reports for these keys
Keys(vs) == [i \in 1..Len(vs) |-> vs[i].key]
HasKey(vs, k) == \E i \in 1..Len(vs) : vs[i].key = k
Get(vs, k) == vs[CHOOSE i \in 1..Len(vs) : vs[i].key = k]
\* a record that keeps the first entry of a key
Put_firstWins(vs, entry) ==
  IF HasKey(vs, entry.key) THEN vs ELSE Append(vs, entry)

\* variables[key] = entry
Put(vs, entry) ==
  IF HasKey(vs, entry.key)
    THEN [i \in 1..Len(vs) |-> IF vs[i].key = entry.key THEN entry ELSE vs[i]]
    ELSE Append(vs, entry)

\* trimmedLine.match(/^([^=]+)=(.*)$/)
Matches(line) ==
  LET eq == IndexOf(line, "=")
  IN  eq > 1 /\ \A k \in (eq + 1)..Len(line) : ~IsLineTerminator(line[k])
MatchKey(line)   == SubSeq(line, 1, IndexOf(line, "=") - 1)
MatchValue(line) == From(line, IndexOf(line, "=") + 1)

\* a parser that closes the quotation at the first quote after the opening one
ClosingIndex_first(raw) ==
  LET at == {i \in 2..Len(raw) : raw[i] = raw[1]} IN IF at = {} THEN 1 ELSE SetMin(at)

\* const closingIndex = value.lastIndexOf(quoteChar), 1-based
ClosingIndex(raw) == LastIndexOf(raw, raw[1])

\* the quoting and inline-comment part of the callback: [value, inlineComment, isQuoted]
SplitValue(raw) ==
  IF StartsWith(raw, <<"\"">>) \/ StartsWith(raw, <<"'">>)
    THEN LET closing == ClosingIndex(raw)
         IN  IF closing > 1
               THEN LET rest == Trim(From(raw, closing + 1))
                    IN  [value |-> SubSeq(raw, 2, closing - 1),
                         inlineComment |-> IF StartsWith(rest, <<"#">>)
                                             THEN Trim(From(rest, 2)) ELSE <<>>,
                         isQuoted |-> TRUE]
               ELSE [value |-> raw, inlineComment |-> <<>>, isQuoted |-> TRUE]
    ELSE LET hash == IndexOf(raw, "#")
         IN  IF hash # 0
               THEN [value |-> Trim(SubSeq(raw, 1, hash - 1)),
                     inlineComment |-> Trim(From(raw, hash + 1)),
                     isQuoted |-> FALSE]
               ELSE [value |-> raw, inlineComment |-> <<>>, isQuoted |-> FALSE]

\* a parser that joins the two comments without the parentheses
FinalComment_noParentheses(block, inlineComment) ==
  IF Len(block) > 0
    THEN IF inlineComment # <<>>
           THEN Join(block, <<" ">>) \o <<" ">> \o inlineComment
           ELSE Join(block, <<" ">>)
    ELSE inlineComment

\* finalComment
FinalComment(block, inlineComment) ==
  IF Len(block) > 0
    THEN IF inlineComment # <<>>
           THEN Join(block, <<" ">>) \o <<" ", "(">> \o inlineComment \o <<")">>
           ELSE Join(block, <<" ">>)
    ELSE inlineComment

\* a parser that records every key the regular expression captures
AcceptsKey_unvalidated(key) == key # <<>>

\* if (!validateVarName(key)) { warn; reset; return }
AcceptsKey(key) == validateVarName(key)

\* a parser whose skipped lines leave the pending comments in place
BlockAfterSkip_kept(block) == block

\* currentCommentBlock = [] on a line that records nothing
BlockAfterSkip(block) == <<>>

\* the forEach callback on one line; st = [variables, block, warnings]
ParseLine(st, line, lineNo) ==
  LET trimmedLine == Trim(line)
      reset(w)    == [variables |-> st.variables, block |-> BlockAfterSkip(st.block),
                      warnings |-> w]
  IN
  IF ~validateLineLength(line)
    THEN reset(Append(st.warnings, [kind |-> "LineTooLong", line |-> lineNo]))
  ELSE IF trimmedLine = <<>>
    THEN reset(st.warnings)
  ELSE IF StartsWith(trimmedLine, <<"#">>)
    THEN [st EXCEPT !.block = Append(st.block, Trim(From(trimmedLine, 2)))]
  ELSE IF ~Matches(trimmedLine)
    THEN reset(st.warnings)
  ELSE
    LET key == Trim(MatchKey(trimmedLine))
        raw == Trim(MatchValue(trimmedLine))
    IN
    IF ~AcceptsKey(key)
      THEN reset(Append(st.warnings, [kind |-> "InvalidName", line |-> lineNo]))
      ELSE
        LET sv    == SplitValue(raw)
            final == FinalComment(st.block, sv.inlineComment)
            entry == [key |-> key, value |-> sv.value, line |-> lineNo,
                      comment |-> IF final = <<>> THEN Undefined ELSE final,
                      isQuoted |-> sv.isQuoted]
        IN  [variables |-> Put(st.variables, entry),
             block |-> <<>>,
             warnings |-> IF checkSuspiciousContent(raw)
                            THEN Append(st.warnings, [kind |-> "Suspicious", line |-> lineNo])
                            ELSE st.warnings]

RECURSIVE ParseLines(_, _, _)
ParseLines(st, lines, done) ==
  IF done = Len(lines) THEN st
  ELSE ParseLines(ParseLine(st, lines[done + 1], done + 1), lines, done + 1)

\* parseEnv(content) as a function of its argument
parseEnv(text) ==
  LET st == ParseLines([variables |-> <<>>, block |-> <<>>, warnings |-> <<>>],
                       SplitLines(text), 0)
  IN  [variables |-> st.variables, raw |-> text, lines |-> SplitLines(text)]

-----------------------------------------------------------------------------
(* Inputs of the parser: texts assembled from a pool of lines              *)

MaxLines == 2

kA           == <<"A">>
kB           == <<"B">>
kProtoLower  == <<"_","_","p","r","o","t","o","_","_">>
kProtoMixed  == <<"_","_","P","r","o","t","o","_","_">>
kConstructor == <<"c","o","n","s","t","r","u","c","t","o","r">>
kPrototype   == <<"P","R","O","T","O","T","Y","P","E">>
kToString    == <<"t","o","S","t","r","i","n","g">>

LinePool ==
  { kA \o <<"=","1">>,                                   \* A=1
    kB \o <<" ","=", " ","x"," ","#"," ","c">>,          \* B = x # c
    kA \o <<"=","\"","v","\""," ","#"," ","t">>,         \* A="v" # t
    kProtoLower \o <<"=","1">>,                          \* __proto__=1
    kProtoMixed \o <<"=","1">>,                          \* __Proto__=1
    kConstructor \o <<"=","1">>,                         \* constructor=1
    kPrototype \o <<"=">>,                               \* PROTOTYPE=
    <<"1","A","=","1">>,                                 \* 1A=1
    <<"A","-","B","=","1">>,                             \* A-B=1
    <<"A"," ","B","=","1">>,                             \* A B=1
    <<"#"," ","n">>,                                     \* # n
    <<>>,                                                \* a blank line
    <<"m","e","m","o">>,                                 \* memo
    <<"=","1">>,                                         \* =1
    kB \o <<"=","$","(","x",")">>,                       \* B=$(x)
    kA \o <<"=","1","\r","z">> }                         \* A=1, a carriage return, z

RECURSIVE SeqsUpTo(_, _)
\* the sequences over S of length 0..n
SeqsUpTo(S, n) ==
  IF n = 0 THEN {<<>>}
  ELSE LET shorter == SeqsUpTo(S, n - 1)
       IN  shorter \cup {Append(q, x) : q \in shorter, x \in S}

LineTerminators == { <<"\n">>, <<"\r","\n">> }

\* the line L=aaa...a of n characters
kL == <<"L">>
LineOfLength(n) == [i \in 1..n |-> IF i = 1 THEN "L" ELSE IF i = 2 THEN "=" ELSE "a"]

\* a line at the limit or one character over it, between two variable lines
BoundaryTexts ==
  { Join(<<kA \o <<"=","1">>, long, kB \o <<"=","2">> >>, nl) :
      long \in {LineOfLength(MAX_LINE_LENGTH), LineOfLength(MAX_LINE_LENGTH + 1)},
      nl \in LineTerminators }

\* texts of up to MaxCommentLines lines: comment lines, variable lines and
\* the lines that may stand between them
MaxCommentLines == 3

LongComment == [i \in 1..(MAX_LINE_LENGTH + 1) |-> IF i = 1 THEN "#" ELSE "a"]

CommentLinePool ==
  { <<"#"," ","n">>,                                     \* # n
    <<" ","#"," "," ","m"," ">>,                         \* (space)#  m(space)
    kA \o <<"=","1">>,                                   \* A=1
    kB \o <<"=","2"," ","#"," ","c">>,                   \* B=2 # c
    <<"1","A","=","1">>,                                 \* 1A=1
    <<"m","e","m","o">>,                                 \* memo
    <<"#">>,                                             \* #
    <<>> }                                               \* a blank line

CommentTexts ==
  { Join(ls, <<"\n">>) : ls \in SeqsUpTo(CommentLinePool, MaxCommentLines) \ {<<>>} }
  \cup { Join(<< <<"#"," ","n">>, long, kA \o <<"=","1">> >>, <<"\n">>) :
           long \in {LineOfLength(MAX_LINE_LENGTH + 1), LongComment} }

\* one-line texts KEY=<value>, for every value of up to MaxValueLen
\* characters among the two quotes, "#", a space and a letter, and the line
\* of the scenario
MaxValueLen == 4

kKey == <<"K","E","Y">>
ValueChars == {"\"", "'", "#", " ", "v"}
ScenarioQuoted ==
  kKey \o <<"=","\"","v","a","l","u","e","\""," ","#"," ","t","r","a","i","l","i","n","g">>

QuoteTexts ==
  { kKey \o <<"=">> \o v : v \in SeqsUpTo(ValueChars, MaxValueLen) }
  \cup { ScenarioQuoted,
         \* a block comment above a quoted value with an inline comment
         Join(<< <<"#"," ","n">>, kKey \o <<"=","'","v","'","#","t">> >>, <<"\n">>) }

Texts ==
  { Join(ls, nl) : ls \in SeqsUpTo(LinePool, MaxLines) \ {<<>>}, nl \in LineTerminators }
  \cup BoundaryTexts
  \cup CommentTexts
  \cup QuoteTexts

-----------------------------------------------------------------------------
(* Specification of parseEnv: one step per line, then the return           *)

ParserIdle ==
  /\ content = <<>> /\ index = 0 /\ currentCommentBlock = <<>>
  /\ variables = <<>> /\ warnings = <<>> /\ parseResult = NotYet
AnalyzerIdle == target = Null /\ template = Null /\ diff = NotYet
FilesIdle    == disk = <<>> /\ call = NotYet /\ outcome = NotYet /\ written = {}

InitParse ==
  /\ content \in Texts
  /\ index = 0
  /\ currentCommentBlock = <<>>
  /\ variables = <<>>
  /\ warnings = <<>>
  /\ parseResult = NotYet
  /\ AnalyzerIdle /\ FilesIdle

\* lines.forEach callback, on line index + 1
ParseStep ==
  /\ parseResult = NotYet
  /\ index < Len(SplitLines(content))
  /\ LET st == ParseLine([variables |-> variables, block |-> currentCommentBlock,
                          warnings |-> warnings],
                         SplitLines(content)[index + 1], index + 1)
     IN  /\ variables' = st.variables
         /\ currentCommentBlock' = st.block
         /\ warnings' = st.warnings
  /\ index' = index + 1
  /\ UNCHANGED <<content, parseResult>>
  /\ UNCHANGED <<analyzerVars, fileVars>>

\* return { variables, raw: content, lines }
ParseReturn ==
  /\ parseResult = NotYet
  /\ index = Len(SplitLines(content))
  /\ parseResult' = [variables |-> variables, raw |-> content, lines |-> SplitLines(content)]
  /\ UNCHANGED <<content, index, currentCommentBlock, variables, warnings>>
  /\ UNCHANGED <<analyzerVars, fileVars>>

NextParse == ParseStep \/ ParseReturn

SpecParse == InitParse /\ [][NextParse]_vars

-----------------------------------------------------------------------------
(* Claims about the parser                                                 *)

\* the grammar [A-Za-z_][A-Za-z0-9_]* and the reserved names, as the claim states them
IsSafeName(k) ==
  /\ Len(k) >= 1
  /\ k[1] \in Letters \cup {"_"}
  /\ \A i \in 2..Len(k) : k[i] \in Letters \cup Digits \cup {"_"}
  /\ ToUpperCase(k) # ToUpperCase(kProtoLower)
  /\ ToUpperCase(k) # ToUpperCase(kConstructor)
  /\ ToUpperCase(k) # kPrototype

\* C1: every key of parse(T).variables, for every text T, matches
\* [A-Za-z_][A-Za-z0-9_]* and is not __PROTO__, CONSTRUCTOR or PROTOTYPE when
\* uppercased; it holds of the entries recorded so far at every step of the parse
C1_ParsedKeysAreSafe ==
  /\ \A i \in 1..Len(variables) : IsSafeName(variables[i].key)
  /\ parseResult # NotYet =>
       \A i \in 1..Len(parseResult.variables) : IsSafeName(parseResult.variables[i].key)

\* a finished parse that recorded an entry and rejected a reserved name and a malformed one
C1_Witness ==
  /\ parseResult # NotYet
  /\ Len(parseResult.variables) >= 1
  /\ \E w \in Range(warnings) : w.kind = "InvalidName"
  /\ \E j \in 1..Len(parseResult.lines) :
       StartsWith(ToUpperCase(parseResult.lines[j]), kPrototype \o <<"=">>)

\* the entry recorded for line j of a finished parse, if there is one
\* a line the parser records: within the limit, no comment, matched as
\* key=value, with a valid trimmed key
IsRecordedLine(line) ==
  /\ Len(line) <= MAX_LINE_LENGTH
  /\ ~StartsWith(Trim(line), <<"#">>)
  /\ Matches(Trim(line))
  /\ IsSafeName(Trim(MatchKey(Trim(line))))

RecordedAt(j) == {i \in 1..Len(parseResult.variables) : parseResult.variables[i].line = j}
SkippedAsTooLong(j) == \E w \in Range(warnings) : w.kind = "LineTooLong" /\ w.line = j

\* C12: the limit is 10000 characters; a line of at most that length is not
\* skipped for its length, and the line L=a...a of exactly 10000 characters is
\* recorded with its whole value; a line one character longer is skipped with
\* a warning and yields no record, and the variable lines before and after it
\* have a record for their key
C12_LineLengthBoundary ==
  /\ MAX_LINE_LENGTH = 10000
  /\ parseResult # NotYet =>
       \A j \in 1..Len(parseResult.lines) :
         LET line == parseResult.lines[j]
         IN  /\ Len(line) <= MAX_LINE_LENGTH => ~SkippedAsTooLong(j)
             /\ line = LineOfLength(MAX_LINE_LENGTH) =>
                  \E i \in RecordedAt(j) :
                    /\ parseResult.variables[i].key = kL
                    /\ Len(parseResult.variables[i].value) = MAX_LINE_LENGTH - 2
             /\ Len(line) = MAX_LINE_LENGTH + 1 =>
                  /\ SkippedAsTooLong(j) /\ RecordedAt(j) = {}
                  /\ ~HasKey(parseResult.variables, kL)
                  /\ \A m \in {j - 1, j + 1} \cap (1..Len(parseResult.lines)) :
                       IsRecordedLine(parseResult.lines[m]) =>
                         HasKey(parseResult.variables,
                                Trim(MatchKey(Trim(parseResult.lines[m]))))

\* a finished parse of A=1, a line of 10001 characters, B=2
C12_Witness ==
  /\ parseResult # NotYet
  /\ Len(parseResult.lines) = 3
  /\ Len(parseResult.lines[2]) = MAX_LINE_LENGTH + 1
  /\ SkippedAsTooLong(2)
  /\ Keys(parseResult.variables) = <<kA, kB>>

\* a line the parser takes as a comment line, and the body it keeps of it
IsCommentLine(line) == Len(line) <= MAX_LINE_LENGTH /\ StartsWith(Trim(line), <<"#">>)
CommentBody(line)   == Trim(From(Trim(line), 2))

\* the first line of the maximal run of comment lines directly above line j
\* (j itself when the line above is no comment line)
RunStart(lines, j) ==
  SetMin({k \in 1..j : \A m \in k..(j - 1) : IsCommentLine(lines[m])})
\* the bodies of that run, in order
BodiesAbove(lines, j) ==
  [i \in 1..(j - RunStart(lines, j)) |-> CommentBody(lines[RunStart(lines, j) + i - 1])]

\* the inline comment of a variable line, as the parser splits it off
InlineCommentOf(line) == SplitValue(Trim(MatchValue(Trim(line)))).inlineComment
CommentText(entry) == IF entry.comment = Undefined THEN <<>> ELSE entry.comment

\* C22: at every line the pending comments are the bodies of the maximal run
\* of comment lines directly above it, so a blank line, a line without "=",
\* a line with an invalid key, an over-long line or a recorded variable in
\* between leaves nothing pending; the block comment of a recorded variable
\* is the space-joined bodies of the run directly above its line
C22_BlockCommentRun ==
  /\ parseResult = NotYet =>
       currentCommentBlock = BodiesAbove(SplitLines(content), index + 1)
  /\ parseResult # NotYet =>
       \A i \in 1..Len(parseResult.variables) :
         LET entry  == parseResult.variables[i]
             block  == Join(BodiesAbove(parseResult.lines, entry.line), <<" ">>)
             inline == InlineCommentOf(parseResult.lines[entry.line])
         IN  /\ BodiesAbove(parseResult.lines, entry.line) = <<>> =>
                  CommentText(entry) = inline
             /\ (BodiesAbove(parseResult.lines, entry.line) # <<>> /\ inline = <<>>) =>
                  CommentText(entry) = block
             /\ (BodiesAbove(parseResult.lines, entry.line) # <<>> /\ inline # <<>>) =>
                  /\ StartsWith(CommentText(entry), block \o <<" ", "(">>)
                  /\ EndsWith(CommentText(entry), inline \o <<")">>)

\* a finished parse of two comment lines and a variable, and one of a
\* comment, a line without "=" and a variable
C22_Witness ==
  /\ parseResult # NotYet
  /\ parseResult.lines = << <<"#"," ","n">>, <<" ","#"," "," ","m"," ">>, kA \o <<"=","1">> >>
  /\ Get(parseResult.variables, kA).comment = <<"n"," ","m">>

C22_WitnessInterrupted ==
  /\ parseResult # NotYet
  /\ parseResult.lines = << <<"#"," ","n">>, <<"m","e","m","o">>, kA \o <<"=","1">> >>
  /\ Get(parseResult.variables, kA).comment = Undefined

\* the text of a variable line after its first "=", trimmed
RawValueOf(line) == Trim(From(Trim(line), IndexOf(Trim(line), "=") + 1))
IsQuoteChar(c)   == c \in {"\"", "'"}
\* begins with a quote character that occurs again later
IsWrapped(v) == v # <<>> /\ IsQuoteChar(v[1]) /\ \E k \in 2..Len(v) : v[k] = v[1]
LastQuote(v) == SetMax({k \in 2..Len(v) : v[k] = v[1]})
AfterQuote(v) == Trim(SubSeq(v, LastQuote(v) + 1, Len(v)))

\* C23: when the value of a recorded line begins with a quote character that
\* occurs again later, the recorded value is the text between the opening
\* quote and the last occurrence of that character, isQuoted is true, and
\* text after the closing quote that starts with "#" is the inline comment
\* (the whole comment when no comment line stands above, its parenthesized
\* end otherwise); KEY="value" # trailing gives KEY, value, quoted, trailing
C23_QuotedValue ==
  parseResult # NotYet =>
    /\ \A i \in 1..Len(parseResult.variables) :
         LET entry == parseResult.variables[i]
             v     == RawValueOf(parseResult.lines[entry.line])
             tail  == Trim(From(AfterQuote(v), 2))
         IN  IsWrapped(v) =>
               /\ entry.value = SubSeq(v, 2, LastQuote(v) - 1)
               /\ entry.isQuoted = TRUE
               /\ StartsWith(AfterQuote(v), <<"#">>) =>
                    IF BodiesAbove(parseResult.lines, entry.line) = <<>>
                      THEN CommentText(entry) = tail
                      ELSE tail # <<>> =>
                             EndsWith(CommentText(entry), <<"(">> \o tail \o <<")">>)
    /\ parseResult.lines = <<ScenarioQuoted>> =>
         parseResult.variables =
           << [key |-> kKey, value |-> <<"v","a","l","u","e">>, line |-> 1,
               comment |-> <<"t","r","a","i","l","i","n","g">>, isQuoted |-> TRUE] >>

\* the scenario was parsed
C23_Witness ==
  /\ parseResult # NotYet
  /\ parseResult.lines = <<ScenarioQuoted>>
  /\ Len(parseResult.variables) = 1
  /\ parseResult.variables[1].isQuoted

\* a value with a third quote: KEY='v'' was recorded with the value v'
C23_WitnessThreeQuotes ==
  /\ parseResult # NotYet
  /\ parseResult.lines = << kKey \o <<"=","'","v","'","'">> >>
  /\ parseResult.variables[1].value = <<"v","'">>

\* C24, as stated: isQuoted is true exactly when the value begins with a
\* quote character and holds a later occurrence of it; a value with an
\* unterminated opening quote is recorded with its literal text and is not
\* marked as quoted
C24_QuotedIffWrapped ==
  parseResult # NotYet =>
    \A i \in 1..Len(parseResult.variables) :
      LET entry == parseResult.variables[i]
          v     == RawValueOf(parseResult.lines[entry.line])
      IN  /\ entry.isQuoted <=> IsWrapped(v)
          /\ (v # <<>> /\ IsQuoteChar(v[1]) /\ ~IsWrapped(v)) =>
               (entry.value = v /\ ~entry.isQuoted)

\* the parts of it that hold: a wrapped value is marked, a value that begins
\* with no quote is not, and an unterminated one keeps its literal text
QuotedWhenWrapped ==
  parseResult # NotYet =>
    \A i \in 1..Len(parseResult.variables) :
      LET entry == parseResult.variables[i]
          v     == RawValueOf(parseResult.lines[entry.line])
      IN  /\ IsWrapped(v) => entry.isQuoted
          /\ (v = <<>> \/ ~IsQuoteChar(v[1])) => ~entry.isQuoted
          /\ (v # <<>> /\ IsQuoteChar(v[1]) /\ ~IsWrapped(v)) => entry.value = v

\* C25: the comment of the entry a step records is assembled from the
\* pending block comment and the line's inline comment: the block lines
\* joined by single spaces with only a block, the inline text with only an
\* inline comment, the block text, a space and the inline text in
\* parentheses with both, and absent with neither (an empty text is absent)
C25_CommentAssembly ==
  [][ index' = index + 1 =>
        \A i \in 1..Len(variables') :
          variables'[i].line = index' =>
            LET block  == currentCommentBlock
                inline == InlineCommentOf(SplitLines(content)[index'])
                got    == variables'[i].comment
            IN  /\ (block # <<>> /\ inline = <<>>) =>
                     got = (IF Join(block, <<" ">>) = <<>> THEN Undefined
                            ELSE Join(block, <<" ">>))
                /\ (block = <<>> /\ inline # <<>>) => got = inline
                /\ (block # <<>> /\ inline # <<>>) =>
                     got = Join(block, <<" ">>) \o <<" ", "(">> \o inline \o <<")">>
                /\ (block = <<>> /\ inline = <<>>) => got = Undefined ]_vars

\* two comment lines above B=2 # c gave the comment "n m (c)"
C25_Witness ==
  /\ parseResult # NotYet
  /\ Len(parseResult.lines) = 3
  /\ HasKey(parseResult.variables, kB)
  /\ Get(parseResult.variables, kB).comment = <<"n"," ","m"," ","(","c",")">>

\* the recorded lines for key k among the first n lines
KeyLines(lines, k, n) ==
  {j \in 1..n : IsRecordedLine(lines[j]) /\ Trim(MatchKey(Trim(lines[j]))) = k}
\* the entry of line j taken alone, with the comment lines above it
LineEntry(lines, j) ==
  LET sv    == SplitValue(RawValueOf(lines[j]))
      final == FinalComment(BodiesAbove(lines, j), sv.inlineComment)
  IN  [key |-> Trim(MatchKey(Trim(lines[j]))), value |-> sv.value, line |-> j,
       comment |-> IF final = <<>> THEN Undefined ELSE final, isQuoted |-> sv.isQuoted]

\* C26: at every step the keys recorded are pairwise different; a key on
\* several recorded lines has one entry, whose value, quoting, comment and
\* line are those of the last such line, and no such line is warned about
\* as an invalid name or left out
C26_LastOccurrenceWins ==
  LET lines == SplitLines(content) IN
  parseResult = NotYet =>
    /\ \A i, j \in 1..Len(variables) : variables[i].key = variables[j].key => i = j
    /\ \A i \in 1..Len(variables) :
         /\ KeyLines(lines, variables[i].key, index) # {}
         /\ variables[i] = LineEntry(lines, SetMax(KeyLines(lines, variables[i].key, index)))
    /\ \A j \in 1..index :
         IsRecordedLine(lines[j]) =>
           /\ HasKey(variables, Trim(MatchKey(Trim(lines[j]))))
           /\ ~\E w \in Range(warnings) : w.line = j /\ w.kind # "Suspicious"

\* A=1 and then A="v" # t: one entry, that of line 2
C26_Witness ==
  /\ parseResult = NotYet /\ index = 2
  /\ SplitLines(content) = << kA \o <<"=","1">>, kA \o <<"=","\"","v","\""," ","#"," ","t">> >>
  /\ variables = << [key |-> kA, value |-> <<"v">>, line |-> 2, comment |-> <<"t">>,
                      isQuoted |-> TRUE] >>
  /\ warnings = <<>>

\* a line of the form key=value: it holds "=", and is neither blank nor a comment
HasKeyValueForm(line) ==
  Trim(line) # <<>> /\ ~StartsWith(Trim(line), <<"#">>) /\ IndexOf(Trim(line), "=") > 0
KeyOfLine(line) == Trim(SubSeq(Trim(line), 1, IndexOf(Trim(line), "=") - 1))

\* C28, as stated: in every finished parse each line within the length limit
\* of the form key=value with a valid key has a record for its key, from
\* that line or a later one, whatever the other lines are; a line with an
\* invalid name or without "=" is the line of no record; and a recorded
\* value matching a suspicious pattern is recorded with a warning
C28_AnomaliesDoNotBlock ==
  parseResult # NotYet =>
    \A j \in 1..Len(parseResult.lines) :
      LET line == parseResult.lines[j]
      IN  /\ (Len(line) <= MAX_LINE_LENGTH /\ HasKeyValueForm(line) /\ IsSafeName(KeyOfLine(line))) =>
                /\ HasKey(parseResult.variables, KeyOfLine(line))
                /\ Get(parseResult.variables, KeyOfLine(line)).line >= j
          /\ (~HasKeyValueForm(line) \/ ~IsSafeName(KeyOfLine(line))) => RecordedAt(j) = {}
          /\ (RecordedAt(j) # {} /\ checkSuspiciousContent(RawValueOf(line))) =>
                \E w \in Range(warnings) : w.kind = "Suspicious" /\ w.line = j

\* the same for the lines the expression key=value matches, which leaves
\* out a value that holds a carriage return
AnomaliesDoNotBlockMatched ==
  parseResult # NotYet =>
    \A j \in 1..Len(parseResult.lines) :
      LET line == parseResult.lines[j]
      IN  /\ IsRecordedLine(line) =>
                /\ HasKey(parseResult.variables, KeyOfLine(line))
                /\ Get(parseResult.variables, KeyOfLine(line)).line >= j
          /\ (~HasKeyValueForm(line) \/ ~IsSafeName(KeyOfLine(line))) => RecordedAt(j) = {}
          /\ (RecordedAt(j) # {} /\ checkSuspiciousContent(RawValueOf(line))) =>
                \E w \in Range(warnings) : w.kind = "Suspicious" /\ w.line = j

-----------------------------------------------------------------------------
(* analyzer.ts: analyzeEnv                                                 *)

\* [...keys].filter(key => !others.has(key)) and its complement, in keys' order
Without(keys, others) ==
  LET absent(k) == \A i \in 1..Len(others) : others[i] # k IN SelectSeq(keys, absent)
Within(keys, others) ==
  LET present(k) == \E i \in 1..Len(others) : others[i] = k IN SelectSeq(keys, present)

\* Math.round(x) is floor(x + 1/2); here x = syncedCount / totalRequired * 100
RoundedRatio(syncedCount, totalRequired) ==
  (200 * syncedCount + totalRequired) \div (2 * totalRequired)

\* totalRequired === 0 ? 100 : Math.round((syncedCount / totalRequired) * 100)
Percentage(syncedCount, totalRequired) ==
  IF totalRequired = 0 THEN 100 ELSE RoundedRatio(syncedCount, totalRequired)

\* a missing list computed from the wrong side
MissingKeys_swapped(targetKeys, templateKeys) == Without(targetKeys, templateKeys)

\* const missing = [...templateKeys].filter(key => !targetKeys.has(key))
MissingKeys(targetKeys, templateKeys) == Without(templateKeys, targetKeys)
\* const extra = [...targetKeys].filter(key => !templateKeys.has(key))
ExtraKeys(targetKeys, templateKeys)   == Without(targetKeys, templateKeys)
\* const synced = [...templateKeys].filter(key => targetKeys.has(key))
SyncedKeys(targetKeys, templateKeys)  == Within(templateKeys, targetKeys)

\* a no-template branch that forgets the target's keys and reports 0%
NoTemplateResult_empty(tg) ==
  [missing |-> <<>>, extra |-> <<>>, mismatch |-> <<>>, synced |-> <<>>,
   totalExample |-> 0, totalTarget |-> 0, percentage |-> IF tg = Null THEN 0 ELSE 100]

\* if (!template) return { ... }
NoTemplateResult(tg) ==
  [missing      |-> <<>>,
   extra        |-> IF tg # Null THEN Keys(tg.variables) ELSE <<>>,
   mismatch     |-> <<>>,
   synced       |-> <<>>,
   totalExample |-> 0,
   totalTarget  |-> IF tg # Null THEN Len(Keys(tg.variables)) ELSE 0,
   percentage   |-> 100]

\* a no-target branch that reports the template's keys as extra
NoTargetResult_asExtra(tp) ==
  [missing |-> <<>>, extra |-> Keys(tp.variables), mismatch |-> <<>>, synced |-> <<>>,
   totalExample |-> Len(Keys(tp.variables)), totalTarget |-> 0, percentage |-> 0]

\* if (!target) return { ... }
NoTargetResult(tp) ==
  [missing      |-> Keys(tp.variables),
   extra        |-> <<>>,
   mismatch     |-> <<>>,
   synced       |-> <<>>,
   totalExample |-> Len(Keys(tp.variables)),
   totalTarget  |-> 0,
   percentage   |-> 0]

\* both files present
BothResult(tg, tp) ==
  LET targetKeys   == Keys(tg.variables)
      templateKeys == Keys(tp.variables)
      synced       == SyncedKeys(targetKeys, templateKeys)
  IN  [missing      |-> MissingKeys(targetKeys, templateKeys),
       extra        |-> ExtraKeys(targetKeys, templateKeys),
       mismatch     |-> <<>>,
       synced       |-> synced,
       totalExample |-> Len(templateKeys),
       totalTarget  |-> Len(targetKeys),
       percentage   |-> Percentage(Len(synced), Len(templateKeys))]

analyzeEnv(tg, tp) ==
  IF tp = Null THEN NoTemplateResult(tg)
  ELSE IF tg = Null THEN NoTargetResult(tp)
  ELSE BothResult(tg, tp)

-----------------------------------------------------------------------------
(* Specification of analyzeEnv: any two parse results or nulls, then the call *)

MaxVars == 3

kC == <<"C">>
AnalyzerKeys == {kA, kB, kC, kToString}

\* an entry as the analyzer's tests build it
MockVar(k) ==
  [key |-> k, value |-> <<"1">>, line |-> 1, comment |-> Undefined, isQuoted |-> FALSE]
MockResult(ks) ==
  [variables |-> [i \in 1..Len(ks) |-> MockVar(ks[i])], raw |-> <<>>, lines |-> <<>>]

IsInjective(q) == \A i, j \in 1..Len(q) : q[i] = q[j] => i = j

AnalyzerInputs ==
  {Null} \cup {MockResult(ks) : ks \in {q \in SeqsUpTo(AnalyzerKeys, MaxVars) : IsInjective(q)}}

InitAnalyze ==
  /\ target \in AnalyzerInputs
  /\ template \in AnalyzerInputs
  /\ diff = NotYet
  /\ ParserIdle /\ FilesIdle

Analyze ==
  /\ diff = NotYet
  /\ diff' = analyzeEnv(target, template)
  /\ UNCHANGED <<target, template>>
  /\ UNCHANGED <<parserVars, fileVars>>

NextAnalyze == Analyze

SpecAnalyze == InitAnalyze /\ [][NextAnalyze]_vars

-----------------------------------------------------------------------------
(* Claims about the analyzer                                               *)

\* C2: with target and template both present, missing and synced are disjoint
\* and together are exactly the template's keys
C2_MissingSyncedPartition ==
  (diff # NotYet /\ target # Null /\ template # Null) =>
    /\ Range(diff.missing) \cap Range(diff.synced) = {}
    /\ Range(diff.missing) \cup Range(diff.synced) = Range(Keys(template.variables))

\* both present, a key missing, a key synced and a key extra
C2_Witness ==
  /\ diff # NotYet /\ target # Null /\ template # Null
  /\ diff.missing # <<>> /\ diff.synced # <<>> /\ diff.extra # <<>>

\* C3: with no template, missing is empty, extra is the target's keys (empty
\* when there is no target either) and the percentage is 100
C3_NoTemplate ==
  (diff # NotYet /\ template = Null) =>
    /\ diff.missing = <<>>
    /\ diff.extra = IF target = Null THEN <<>> ELSE Keys(target.variables)
    /\ diff.percentage = 100

\* analyzeEnv(null, null) has returned
C3_WitnessBothAbsent == diff # NotYet /\ template = Null /\ target = Null

\* C4: with no target and a non-empty template, missing is all the template's
\* keys, extra is empty and the percentage is 0
C4_NoTarget ==
  (diff # NotYet /\ target = Null /\ template # Null /\ template.variables # <<>>) =>
    /\ diff.missing = Keys(template.variables)
    /\ diff.extra = <<>>
    /\ diff.percentage = 0

\* analyzeEnv(null, Y) has returned for a template Y of two keys
C4_Witness ==
  /\ diff # NotYet /\ target = Null /\ template # Null
  /\ Len(template.variables) = 2

\* C5, as stated: in every result the percentage is round(|synced| / totalTemplate * 100),
\* and 100 whenever totalTemplate is 0; template {A, B} with target {A} gives
\* missing = [B] and 50
C5_PercentageFormula ==
  diff # NotYet =>
    /\ diff.percentage = IF diff.totalExample = 0 THEN 100
                         ELSE RoundedRatio(Len(diff.synced), diff.totalExample)
    /\ (target = MockResult(<<kA>>) /\ template = MockResult(<<kA, kB>>)) =>
         (diff.missing = <<kB>> /\ diff.percentage = 50)

-----------------------------------------------------------------------------
(* path.resolve / path.normalize on POSIX paths                            *)

\* s.split(c) for a one-character separator
SplitOn(s, c) ==
  LET at == SortedSeq({i \in 1..Len(s) : s[i] = c})
      n  == Len(at)
      first(j) == IF j = 1 THEN 1 ELSE at[j - 1] + 1
      last(j)  == IF j = n + 1 THEN Len(s) ELSE at[j] - 1
  IN  [j \in 1..(n + 1) |-> SubSeq(s, first(j), last(j))]

RECURSIVE NormalizeSegments(_, _)
\* drops "" and ".", lets ".." remove the segment before it (never above the root)
NormalizeSegments(segs, stack) ==
  IF segs = <<>> THEN stack
  ELSE LET h == Head(segs)
       IN  NormalizeSegments(Tail(segs),
             IF h = <<>> \/ h = <<".">> THEN stack
             ELSE IF h = <<".", ".">>
               THEN IF stack = <<>> THEN stack ELSE SubSeq(stack, 1, Len(stack) - 1)
             ELSE Append(stack, h))

RECURSIVE AbsoluteOf(_)
AbsoluteOf(segs) ==
  IF segs = <<>> THEN <<>> ELSE <<"/">> \o Head(segs) \o AbsoluteOf(Tail(segs))

\* path.resolve(cwd, filePath), cwd an absolute normalized path
Resolve(cwd, filePath) ==
  LET full == IF StartsWith(filePath, <<"/">>) THEN filePath ELSE cwd \o <<"/">> \o filePath
      segs == NormalizeSegments(SplitOn(full, "/"), <<>>)
  IN  IF segs = <<>> THEN <<"/">> ELSE AbsoluteOf(segs)

\* path.normalize(p + path.sep) for an absolute normalized p
WithSep(pth) == IF pth = <<"/">> THEN pth ELSE pth \o <<"/">>

\* path.dirname of an absolute normalized path
Dirname(pth) ==
  LET cut == LastIndexOf(pth, "/")
  IN  IF cut <= 1 THEN <<"/">> ELSE SubSeq(pth, 1, cut - 1)

\* a containment test that forgets the separator
IsWithin_noSeparator(pth, cwd) == StartsWith(pth, cwd)

\* normalizedPath.startsWith(normalizedCwd)
IsWithin(pth, cwd) == StartsWith(WithSep(pth), WithSep(cwd))

-----------------------------------------------------------------------------
(* The disk: regular files and symbolic links by absolute path; the        *)
(* directories are fixed.  A path outside the disk's domain does not exist.*)

\* process.cwd()
Root == <<"/","r">>
Dirs == { <<"/">>, Root, <<"/","o">>, <<"/","r","x">> }

MAX_FILE_SIZE == 10 * 1024 * 1024

\* permission bits 0o600, 0o644, 0o444 and 0o000, the owner's digit first
Mode600 == 6 * 64
Mode644 == 6 * 64 + 4 * 8 + 4
Mode444 == 4 * 64 + 4 * 8 + 4
Mode000 == 0 * 64
Mode200 == 2 * 64
OwnerMayRead(mode)  == (mode \div 256) % 2 = 1
OwnerMayWrite(mode) == (mode \div 128) % 2 = 1

File(data, mode) == [kind |-> "file", data |-> data, to |-> <<>>, mode |-> mode, big |-> FALSE]
\* a file larger than MAX_FILE_SIZE, its content left out
BigFile          == [kind |-> "file", data |-> <<>>, to |-> <<>>, mode |-> Mode600, big |-> TRUE]
Link(to)         == [kind |-> "link", data |-> <<>>, to |-> to, mode |-> Mode644, big |-> FALSE]

ELoop == <<"<ELOOP>">>

RECURSIVE FollowFrom(_, _, _)
\* the path a chain of symbolic links ends at, or ELoop
FollowFrom(d, pth, seen) ==
  IF pth \in DOMAIN d /\ d[pth].kind = "link"
    THEN IF d[pth].to \in seen \cup {pth} THEN ELoop
         ELSE FollowFrom(d, d[pth].to, seen \cup {pth})
    ELSE pth
Follow(d, pth) == FollowFrom(d, pth, {})

\* what a path that is no link names: "file", "dir", or the errno of looking it up
KindAt(d, pth) ==
  IF pth = ELoop THEN "ELOOP"
  ELSE IF pth \in Dirs THEN "dir"
  ELSE IF pth \in DOMAIN d THEN "file"
  ELSE IF Dirname(pth) \in DOMAIN d THEN "ENOTDIR"
  ELSE "ENOENT"

\* fs.existsSync follows links and is false on every error
existsSync(d, pth) == KindAt(d, Follow(d, pth)) \in {"file", "dir"}
\* fs.lstatSync(p).isSymbolicLink()
isSymbolicLink(d, pth) == pth \in DOMAIN d /\ d[pth].kind = "link"
\* fs.statSync(p).size, for a path that exists
SizeOf(d, pth) ==
  LET real == Follow(d, pth)
  IN  IF KindAt(d, real) = "dir" THEN 4096
      ELSE IF d[real].big THEN MAX_FILE_SIZE + 1 ELSE Len(d[real].data)

\* fs.readFileSync(p, 'utf-8'): [err, data]
readFileSync(d, pth) ==
  LET real == Follow(d, pth)
      kind == KindAt(d, real)
  IN  IF kind = "dir" THEN [err |-> "EISDIR", data |-> <<>>]
      ELSE IF kind # "file" THEN [err |-> kind, data |-> <<>>]
      ELSE IF ~OwnerMayRead(d[real].mode) THEN [err |-> "EACCES", data |-> <<>>]
      ELSE [err |-> "none", data |-> d[real].data]

\* fs.writeFileSync(p, data, { mode }): [err, disk, real]; the write goes through
\* links, creates the file with the given mode and keeps an existing file's mode
writeFileSync(d, pth, data, mode) ==
  LET real == Follow(d, pth)
      kind == KindAt(d, real)
      fail(e) == [err |-> e, disk |-> d, real |-> real]
  IN  IF kind = "dir" THEN fail("EISDIR")
      ELSE IF kind = "ELOOP" \/ kind = "ENOTDIR" THEN fail(kind)
      ELSE IF kind = "ENOENT"
        THEN IF Dirname(real) \in Dirs
               THEN [err |-> "none", disk |-> (real :> File(data, mode)) @@ d, real |-> real]
               ELSE fail("ENOENT")
      ELSE IF ~OwnerMayWrite(d[real].mode) THEN fail("EACCES")
      ELSE [err |-> "none",
            disk |-> [d EXCEPT ![real] = [@ EXCEPT !.data = data, !.big = FALSE]],
            real |-> real]

-----------------------------------------------------------------------------
(* validation.ts: the path and file checks; each returns [err, path]       *)

validatePath(filePath, cwd) ==
  IF ~IsString(filePath) \/ filePath = <<>> THEN [err |-> "InvalidPath", path |-> <<>>]
  ELSE IF Includes(filePath, <<NulChar>>) THEN [err |-> "NullByte", path |-> <<>>]
  ELSE LET absolutePath == Resolve(cwd, filePath)
       IN  IF ~IsWithin(absolutePath, cwd)
             THEN [err |-> "PathTraversal", path |-> <<>>]
             ELSE [err |-> "none", path |-> absolutePath]

\* "none" when validateSymlink returns true, else the error it throws
validateSymlink(d, filePath, cwd) ==
  IF ~existsSync(d, filePath) THEN "none"
  ELSE IF isSymbolicLink(d, filePath)
    \* realpathSync succeeds, since existsSync followed the same chain
    THEN IF ~IsWithin(Follow(d, filePath), cwd) THEN "SymlinkEscape" ELSE "none"
  ELSE "none"

\* "none" when validateFileSize returns, else the error it throws
validateFileSize(d, filePath) ==
  IF ~existsSync(d, filePath) THEN "none"
  ELSE IF SizeOf(d, filePath) > MAX_FILE_SIZE THEN "FileTooLarge"
  ELSE "none"

\* a validateFile that looks for the file before it validates the path
validateFile_existsFirst(d, filePath, cwd, requireExists) ==
  LET vp == validatePath(filePath, cwd)
  IN  IF requireExists /\ IsString(filePath) /\ ~existsSync(d, Resolve(cwd, filePath))
        THEN [err |-> "FileNotFound", path |-> <<>>]
      ELSE IF vp.err # "none" THEN vp
      ELSE IF validateSymlink(d, vp.path, cwd) # "none"
        THEN [err |-> validateSymlink(d, vp.path, cwd), path |-> <<>>]
      ELSE IF existsSync(d, vp.path) /\ validateFileSize(d, vp.path) # "none"
        THEN [err |-> validateFileSize(d, vp.path), path |-> <<>>]
      ELSE vp

validateFile(d, filePath, cwd, requireExists) ==
  LET vp == validatePath(filePath, cwd)
  IN  IF vp.err # "none" THEN vp
      ELSE IF requireExists /\ ~existsSync(d, vp.path)
        THEN [err |-> "FileNotFound", path |-> <<>>]
      ELSE IF validateSymlink(d, vp.path, cwd) # "none"
        THEN [err |-> validateSymlink(d, vp.path, cwd), path |-> <<>>]
      ELSE IF existsSync(d, vp.path) /\ validateFileSize(d, vp.path) # "none"
        THEN [err |-> validateFileSize(d, vp.path), path |-> <<>>]
      ELSE vp

\* sanitizeErrorMessage(error, filePath): path.basename throws a TypeError
\* unless filePath is a string
sanitizeErrorMessageThrows(filePath) == ~IsString(filePath)

-----------------------------------------------------------------------------
(* fixer.ts: fixEnv                                                        *)

Marker == <<"\n","#"," ","-","-","-"," ","A","d","d","e","d"," ","b","y"," ","e","n","v","-","d","o","c","t","o","r","-","c","l","i"," ","-","-","-","\n">>

\* names every object literal inherits from Object.prototype (a part of them)
ObjectPrototypeKeys ==
  { kConstructor, kProtoLower, kToString,
    <<"v","a","l","u","e","O","f">>, <<"h","a","s","O","w","n","P","r","o","p","e","r","t","y">> }

\* what obj[key] is for an inherited name: a function or object, whose
\* .comment, .value and .isQuoted are undefined
InheritedMember ==
  [key |-> Undefined, value |-> Undefined, line |-> 0, comment |-> Undefined, isQuoted |-> FALSE]
UndefinedVar == [undefined |-> TRUE]

\* exampleEnv.variables[key] on an object built as {}
Lookup(vs, key) ==
  IF HasKey(vs, key) THEN Get(vs, key)
  ELSE IF key \in ObjectPrototypeKeys THEN InheritedMember
  ELSE UndefinedVar

\* `${v}`
Text(v) == IF v = Undefined THEN UndefinedText ELSE v

\* the lines one missing key contributes: the body of missingKeys.forEach
LinesForKey(key, exampleEnv) ==
  LET exampleVar == Lookup(exampleEnv.variables, key)
      finalValue == IF exampleVar.isQuoted
                      THEN <<"\"">> \o Text(exampleVar.value) \o <<"\"">>
                      ELSE Text(exampleVar.value)
  IN  IF exampleVar = UndefinedVar THEN <<>>
      ELSE (IF exampleVar.comment # Undefined /\ exampleVar.comment # <<>>
              THEN << <<"#", " ">> \o exampleVar.comment >> ELSE <<>>)
           \o << key \o <<"=">> \o finalValue, <<>> >>

RECURSIVE LinesForKeys(_, _)
LinesForKeys(keys, exampleEnv) ==
  IF keys = <<>> THEN <<>>
  ELSE LinesForKey(Head(keys), exampleEnv) \o LinesForKeys(Tail(keys), exampleEnv)

\* linesToAdd
LinesToAdd(existing, missingKeys, exampleEnv) ==
  (IF existing # <<>> THEN <<Marker>> ELSE <<>>) \o LinesForKeys(missingKeys, exampleEnv)

\* content after the read: '' for ENOENT, else the data with a final newline ensured
PaddedContent(rd) ==
  IF rd.err # "none" THEN <<>>
  ELSE IF rd.data # <<>> /\ ~EndsWith(rd.data, <<"\n">>) THEN rd.data \o <<"\n">>
  ELSE rd.data

\* a fixer that writes only the new lines
NewContent_onlyAdded(existing, missingKeys, exampleEnv) ==
  Join(LinesToAdd(existing, missingKeys, exampleEnv), <<"\n">>)

\* a fixer that rewrites the file without the blocks added earlier
NewContent_replacingBlocks(existing, missingKeys, exampleEnv) ==
  LET cut == {i \in 1..Len(existing) : StartsWith(From(existing, i), Marker)}
      kept == IF cut = {} THEN existing ELSE SubSeq(existing, 1, SetMin(cut) - 1)
  IN  kept \o Join(LinesToAdd(kept, missingKeys, exampleEnv), <<"\n">>)

\* const newContent = content + linesToAdd.join('\n')
NewContent(existing, missingKeys, exampleEnv) ==
  existing \o Join(LinesToAdd(existing, missingKeys, exampleEnv), <<"\n">>)

\* a fixer that goes on after every read error
IgnoredReadError_any(err) == TRUE

\* if (nodeErr.code !== 'ENOENT') throw err
IgnoredReadError(err) == err = "ENOENT"

\* the catch block: false, unless sanitizeErrorMessage itself throws
Caught(d, e, filePath) ==
  [returned |-> IF sanitizeErrorMessageThrows(filePath) THEN "throws" ELSE "false",
   error |-> e, disk |-> d, wrote |-> {}]

\* fixEnv(targetPath, missingKeys, exampleEnv) on disk d: [returned, error, disk, wrote]
fixEnv(d, targetPath, missingKeys, exampleEnv) ==
  LET vf == validateFile(d, targetPath, Root, FALSE)
      rd == readFileSync(d, vf.path)
      wr == writeFileSync(d, vf.path,
                          NewContent(PaddedContent(rd), missingKeys, exampleEnv), Mode600)
  IN  IF vf.err # "none" THEN Caught(d, vf.err, targetPath)
      ELSE IF rd.err # "none" /\ ~IgnoredReadError(rd.err) THEN Caught(d, rd.err, targetPath)
      \* exampleEnv.variables is read once per key
      ELSE IF exampleEnv = Null /\ missingKeys # <<>> THEN Caught(d, "TypeError", targetPath)
      ELSE IF wr.err # "none" THEN Caught(d, wr.err, targetPath)
      ELSE [returned |-> "true", error |-> "none", disk |-> wr.disk, wrote |-> {wr.real}]

-----------------------------------------------------------------------------
(* generator.ts: generateExample                                           *)

SensitivePatterns ==
  { <<"K","E","Y">>,
    <<"S","E","C","R","E","T">>,
    <<"P","A","S","S","W","O","R","D">>,
    <<"P","A","S","S">>,
    <<"T","O","K","E","N">>,
    <<"C","R","E","D","E","N","T","I","A","L">>,
    <<"A","U","T","H">>,
    <<"P","R","I","V","A","T","E">>,
    <<"S","I","G","N","A","T","U","R","E">>,
    <<"h","a","s","h">>,
    <<"s","a","l","t">>,
    <<"c","e","r","t">>,
    <<"c","o","n","n","e","c","t","i","o","n">> }

\* sensitivePatterns.some(pattern => upperKey.includes(pattern))
isSensitive(key) == \E pattern \in SensitivePatterns : Includes(ToUpperCase(key), pattern)

\* a generator that blanks every variable line
ExampleLine_blankingAll(line) ==
  IF Trim(line) = <<>> \/ StartsWith(Trim(line), <<"#">>) \/ ~Matches(line) THEN line
  ELSE MatchKey(line) \o <<"=">>

\* the lines.forEach callback: the output line for one source line
ExampleLine(line) ==
  LET trimmedLine == Trim(line)
  IN  IF trimmedLine = <<>> \/ StartsWith(trimmedLine, <<"#">>) THEN line
      ELSE IF ~Matches(line) THEN line
      ELSE IF ~validateVarName(Trim(MatchKey(line))) THEN line
      ELSE IF isSensitive(Trim(MatchKey(line))) THEN MatchKey(line) \o <<"=">>
      ELSE line

\* console.warn(`Warning: Skipping invalid variable name: ...`) is reached
ExampleWarns(line) ==
  /\ Trim(line) # <<>> /\ ~StartsWith(Trim(line), <<"#">>)
  /\ Matches(line)
  /\ ~validateVarName(Trim(MatchKey(line)))

\* the warnings of the forEach, in order, each with the line that caused it
ExampleWarnings(text) ==
  LET lines == SplitLines(text)
      warns(j) == ExampleWarns(lines[j])
  IN  [i \in 1..Cardinality({j \in 1..Len(lines) : warns(j)}) |->
         [kind |-> "SkippedInvalidName",
          line |-> CHOOSE j \in 1..Len(lines) :
                     warns(j) /\ Cardinality({k \in 1..j : warns(k)}) = i]]

\* outputLines.join('\n')
ExampleContent(text) ==
  LET lines == SplitLines(text)
  IN  Join([i \in 1..Len(lines) |-> ExampleLine(lines[i])], <<"\n">>)

DefaultExamplePath == <<".","e","n","v",".","e","x","a","m","p","l","e">>

\* generateExample(sourcePath, targetPath = '.env.example') on disk d
generateExample(d, sourcePath, targetPathArg) ==
  LET targetPath == IF targetPathArg = Undefined THEN DefaultExamplePath ELSE targetPathArg
      vs == validateFile(d, sourcePath, Root, TRUE)
      vt == validateFile(d, targetPath, Root, FALSE)
      rd == readFileSync(d, vs.path)
      wr == writeFileSync(d, vt.path, ExampleContent(rd.data), Mode644)
  IN  IF vs.err # "none" THEN Caught(d, vs.err, sourcePath)
      ELSE IF vt.err # "none" THEN Caught(d, vt.err, sourcePath)
      ELSE IF rd.err # "none" THEN Caught(d, rd.err, sourcePath)
      ELSE IF wr.err # "none" THEN Caught(d, wr.err, sourcePath)
      ELSE [returned |-> "true", error |-> "none", disk |-> wr.disk, wrote |-> {wr.real}]

\* what generateExample printed with console.warn: the forEach runs once the
\* two paths are validated and the source is read, before the write
generateExampleWarnings(d, sourcePath, targetPathArg) ==
  LET targetPath == IF targetPathArg = Undefined THEN DefaultExamplePath ELSE targetPathArg
      vs == validateFile(d, sourcePath, Root, TRUE)
      vt == validateFile(d, targetPath, Root, FALSE)
      rd == readFileSync(d, vs.path)
  IN  IF vs.err # "none" \/ vt.err # "none" \/ rd.err # "none" THEN <<>>
      ELSE ExampleWarnings(rd.data)

-----------------------------------------------------------------------------
(* Specification of fixEnv and generateExample: a disk and the arguments   *)
(* of a call, then the call, repeated with the same arguments              *)

MaxCalls   == 2
MaxMissing == 2

pEnv      == <<"/","r","/","e">>      \* the target, inside the root
pLink     == <<"/","r","/","l">>      \* a place for a symbolic link, inside the root
pSecret   == <<"/","o","/","s">>      \* a file outside the root
pOutside  == <<"/","o","/","n">>      \* a name outside the root that does not exist

Existing        == <<"E","X","I","S","T","I","N","G","=","1","\n">>
ExistingNoNl    == <<"E","X","I","S","T","I","N","G","=","1">>
SecretData      == <<"S","=","1","\n">>

kVar     == <<"V","A","R">>
kQuoted  == <<"Q","U","O","T","E","D">>
kNone    == <<"N","O","N","E","X","I","S","T","E","N","T","_","K","E","Y">>

\* the example environments of the fixer's tests and an empty one
ExampleVar ==
  [key |-> kVar, value |-> <<"v","a","l">>, line |-> 1, comment |-> Undefined,
   isQuoted |-> FALSE]
ExampleQuoted ==
  [key |-> kQuoted, value |-> <<"v","a","l">>, line |-> 2,
   comment |-> <<"C","o","m","m","e","n","t">>, isQuoted |-> TRUE]
ExampleEnvFull  == [variables |-> <<ExampleVar, ExampleQuoted>>, raw |-> <<>>, lines |-> <<>>]
ExampleEnvEmpty == [variables |-> <<>>, raw |-> <<>>, lines |-> <<>>]
ExampleEnvs == {ExampleEnvFull, ExampleEnvEmpty}

MissingPool == {kVar, kQuoted, kNone, kToString}

\* the disks a call may find: the target in each condition without a link, and
\* each link beside an ordinary target
Outside == pSecret :> File(SecretData, Mode600)
TargetStates ==
  { File(<<>>, Mode600), File(Existing, Mode644), File(ExistingNoNl, Mode600),
    File(Existing, Mode000), File(Existing, Mode200), File(Existing, Mode444), BigFile }
LinkStates == { Link(pSecret), Link(pOutside), Link(pEnv), Link(pLink) }
InitialDisks ==
  {Outside}
  \cup {(pEnv :> t) @@ Outside : t \in TargetStates}
  \cup {(pLink :> l) @@ (pEnv :> File(Existing, Mode644)) @@ Outside : l \in LinkStates}
  \cup {(pLink :> Link(pOutside)) @@ Outside}

FixPaths ==
  { <<"e">>, <<"l">>, <<".",".","/","o","/","s">>, <<".",".","/","r","x","/","e">>, <<".">>, <<"d","/","e">>, <<"e","/","x">>,
    <<"e", NulChar>>, <<>>, NullArg }
SourcePaths == { <<"e">>, <<"l">>, <<"n">>, <<".",".","/","o","/","s">>, NullArg }
TargetPaths == { <<"x">>, <<"l">>, <<".",".","/","o","/","n">>, Undefined, NullArg }

FixCalls ==
  { [op |-> "fixEnv", targetPath |-> tp, missingKeys |-> ks, exampleEnv |-> env,
     sourcePath |-> <<>>] :
      tp \in FixPaths, ks \in SeqsUpTo(MissingPool, MaxMissing), env \in ExampleEnvs }
GenerateCalls ==
  { [op |-> "generateExample", targetPath |-> tp, missingKeys |-> <<>>, exampleEnv |-> Null,
     sourcePath |-> sp] :
      sp \in SourcePaths, tp \in TargetPaths }

InitFiles ==
  /\ disk \in InitialDisks
  /\ call \in FixCalls \cup GenerateCalls
  /\ outcome = [returned |-> "idle", error |-> "none", history |-> <<>>]
  /\ written = {}
  /\ ParserIdle /\ AnalyzerIdle

\* what a finished call leaves: its result, the disk it started from, and
\* the warnings it printed
Finish(r, warned) ==
  /\ warnings' = warnings \o warned
  /\ disk' = r.disk
  /\ outcome' = [returned |-> r.returned, error |-> r.error,
                 history |-> Append(outcome.history, [disk |-> disk, returned |-> r.returned])]
  /\ written' = written \cup r.wrote
  /\ UNCHANGED call
  /\ UNCHANGED <<content, index, currentCommentBlock, variables, parseResult>>
  /\ UNCHANGED analyzerVars

FixEnv ==
  /\ call.op = "fixEnv"
  /\ Len(outcome.history) < MaxCalls
  /\ Finish(fixEnv(disk, call.targetPath, call.missingKeys, call.exampleEnv), <<>>)

GenerateExample ==
  /\ call.op = "generateExample"
  /\ Len(outcome.history) < MaxCalls
  /\ Finish(generateExample(disk, call.sourcePath, call.targetPath),
            generateExampleWarnings(disk, call.sourcePath, call.targetPath))

NextFiles == FixEnv \/ GenerateExample

SpecFiles == InitFiles /\ [][NextFiles]_vars

-----------------------------------------------------------------------------
(* Claims about fixEnv and generateExample                                 *)

Calls        == Len(outcome.history)
\* the disk before the n-th call
DiskBefore(n) == outcome.history[n].disk
\* the file a call on targetPath reads and writes, links followed
RealTarget   == Follow(DiskBefore(1), Resolve(Root, call.targetPath))
DataOn(d, pth) == IF pth \in DOMAIN d THEN d[pth].data ELSE <<>>

FixSucceeded == call.op = "fixEnv" /\ Calls >= 1 /\ outcome.returned = "true"
FixSucceededTwice ==
  /\ call.op = "fixEnv" /\ Calls = 2
  /\ outcome.history[1].returned = "true" /\ outcome.history[2].returned = "true"

\* the existing content with the one newline the claim allows after it
WithFinalNewline(c) ==
  IF c # <<>> /\ c[Len(c)] # "\n" THEN Append(c, "\n") ELSE c

MarkerLine == <<"#"," ","-","-","-"," ","A","d","d","e","d"," ","b","y"," ","e","n","v","-","d","o","c","t","o","r","-","c","l","i"," ","-","-","-">>
\* a line the appended block may hold: a spacer, the marker, a comment, or
\* an assignment to one of the missing keys
IsAddedLine(ln, keys) ==
  \/ ln = <<>>
  \/ ln = MarkerLine
  \/ StartsWith(ln, <<"#", " ">>)
  \/ \E k \in Range(keys) : StartsWith(ln, k \o <<"=">>)

Scenario6 == <<"E","X","I","S","T","I","N","G","=","1","\n","\n","#"," ","-","-","-"," ","A","d","d","e","d"," ","b","y"," ","e","n","v","-","d","o","c","t","o","r","-","c","l","i"," ","-","-","-","\n","\n","V","A","R","=","v","a","l","\n">>

\* C6: a successful repair writes the existing content unchanged, then one
\* newline if the content was non-empty without a final newline, then only
\* lines of the appended block, and leaves every other file alone; content
\* "EXISTING=1\n" with missing VAR=val gives the content of the scenario
C6_ExistingBytesKept ==
  (FixSucceeded /\ Calls = 1) =>
    LET old  == DataOn(DiskBefore(1), RealTarget)
        new  == DataOn(disk, RealTarget)
        kept == WithFinalNewline(old)
        rest == SplitOn(From(new, Len(kept) + 1), "\n")
    IN  /\ StartsWith(new, kept)
        /\ \A i \in 1..Len(rest) : IsAddedLine(rest[i], call.missingKeys)
        /\ \A q \in DOMAIN disk \ {RealTarget} :
             q \in DOMAIN DiskBefore(1) /\ disk[q] = DiskBefore(1)[q]
        /\ (old = Existing /\ call.missingKeys = <<kVar>> /\ call.exampleEnv = ExampleEnvFull)
             => Includes(new, Scenario6)

\* a repair of "EXISTING=1" (no final newline) that appended the quoted entry
C6_Witness ==
  /\ FixSucceeded /\ Calls = 1
  /\ DataOn(DiskBefore(1), RealTarget) = ExistingNoNl
  /\ call.missingKeys = <<kQuoted>> /\ call.exampleEnv = ExampleEnvFull
  /\ Len(DataOn(disk, RealTarget)) > Len(ExistingNoNl) + Len(Marker)

\* the assignment lines among the lines a repair appended
AssignmentLines(lines) ==
  LET isAssignment(ln) == ln # <<>> /\ ~StartsWith(ln, <<"#">>) IN SelectSeq(lines, isAssignment)

\* the keys of the list that the template defines, in the list's order
DefinedKeys(keys, env) ==
  LET defined(k) == \E i \in 1..Len(env.variables) : env.variables[i].key = k
  IN  SelectSeq(keys, defined)

\* the block the first of two calls appended, after the existing content
FirstBlock ==
  From(DataOn(DiskBefore(2), RealTarget),
       Len(WithFinalNewline(DataOn(DiskBefore(1), RealTarget))) + 1)

\* C7, as stated: after two successful repairs with the same arguments the content is
\* the content after the first call followed by a second copy of the block
\* the first call appended (stated for lists of keys the template defines)
C7_SecondBlockIsCopy ==
  (FixSucceededTwice /\ DefinedKeys(call.missingKeys, call.exampleEnv) = call.missingKeys) =>
    DataOn(disk, RealTarget) = DataOn(DiskBefore(2), RealTarget) \o FirstBlock

\* what two successful repairs leave: the content after the first call
\* followed by the block repair appends to a non-empty file, which is a copy
\* of the first block, preceded by the section marker when the target was
\* empty or absent before the first call (whose block then had no marker)
SecondBlockAppended ==
  FixSucceededTwice =>
    DataOn(disk, RealTarget) =
      DataOn(DiskBefore(2), RealTarget)
      \o (IF DataOn(DiskBefore(1), RealTarget) = <<>> /\ FirstBlock # <<>>
            THEN Marker \o <<"\n">> \o FirstBlock
            ELSE FirstBlock)

\* two successful repairs of a non-empty target, each appending two entries
C7_Witness ==
  /\ FixSucceededTwice
  /\ DataOn(DiskBefore(1), RealTarget) = Existing
  /\ call.missingKeys = <<kVar, kQuoted>> /\ call.exampleEnv = ExampleEnvFull
  /\ Len(DataOn(disk, RealTarget)) > Len(DataOn(DiskBefore(2), RealTarget))

\* C8, as stated: a repair given keys the template does not define succeeds and emits no
\* line for them: the assignment lines it appends are those of the keys the
\* template defines, one each, in the order of the list
C8_UndefinedKeysSkipped ==
  (FixSucceeded /\ Calls = 1 /\ call.exampleEnv # Null) =>
    LET old   == DataOn(DiskBefore(1), RealTarget)
        added == AssignmentLines(SplitOn(From(DataOn(disk, RealTarget),
                                              Len(WithFinalNewline(old)) + 1), "\n"))
        want  == DefinedKeys(call.missingKeys, call.exampleEnv)
    IN  /\ Len(added) = Len(want)
        /\ \A i \in 1..Len(want) : StartsWith(added[i], want[i] \o <<"=">>)

\* C9, as stated: no exception escapes fixEnv or generateExample; a failed call returns
\* false and changes nothing, and true is returned only after the write
C9_NoExceptionEscapes ==
  Calls >= 1 =>
    /\ outcome.returned \in {"true", "false"}
    /\ outcome.returned = "false" => disk = DiskBefore(Calls)
    /\ outcome.returned = "true" => (outcome.error = "none" /\ written # {})

\* C10, as stated: every file fixEnv or generateExample wrote lies inside the root
C10_WritesInsideRoot ==
  \A w \in written : StartsWith(w, Root \o <<"/">>)

\* C15, as stated: after a successful repair the target's permissions are
\* owner read/write only (0600), whether repair created the file or the file
\* existed with wider permissions
C15_TargetMode600 ==
  FixSucceeded => disk[RealTarget].mode = Mode600

\* the error of reading the target as the first call found it
ReadErrorBefore == readFileSync(DiskBefore(1), Resolve(Root, call.targetPath)).err

\* C18: when the read of a validated target fails as not found, repair takes
\* the content as empty and, where the directory exists, creates the file
\* with nothing but the appended entries and returns true; on any other read
\* error it returns false and writes nothing, the disk being as it was
C18_ReadErrors ==
  ( /\ call.op = "fixEnv" /\ Calls = 1
    /\ validateFile(DiskBefore(1), call.targetPath, Root, FALSE).err = "none" ) =>
    /\ (ReadErrorBefore = "ENOENT" /\ Dirname(RealTarget) \in Dirs) =>
         outcome.returned = "true"
    /\ (ReadErrorBefore = "ENOENT" /\ outcome.returned = "true") =>
         /\ RealTarget \notin DOMAIN DiskBefore(1)
         /\ RealTarget \in DOMAIN disk
         /\ written = {RealTarget}
         /\ \A ln \in Range(SplitOn(DataOn(disk, RealTarget), "\n")) :
              IsAddedLine(ln, call.missingKeys)
    /\ ReadErrorBefore \notin {"none", "ENOENT"} =>
         /\ outcome.returned = "false"
         /\ disk = DiskBefore(1)
         /\ written = {}

\* a target that may be written but not read: repair returned false
C18_Witness ==
  /\ call.op = "fixEnv" /\ Calls = 1
  /\ ReadErrorBefore = "EACCES"
  /\ OwnerMayWrite(DiskBefore(1)[RealTarget].mode)
  /\ call.missingKeys = <<kVar>> /\ call.exampleEnv = ExampleEnvFull
  /\ outcome.returned = "false"

\* an absent target: repair created it with the entry
C18_WitnessCreated ==
  /\ call.op = "fixEnv" /\ Calls = 1
  /\ ReadErrorBefore = "ENOENT"
  /\ call.missingKeys = <<kVar>> /\ call.exampleEnv = ExampleEnvFull
  /\ outcome.returned = "true"
  /\ DataOn(disk, pEnv) = kVar \o <<"=","v","a","l","\n">>

\* what a single call appended after the existing content and its newline
AppendedText ==
  From(DataOn(disk, RealTarget), Len(WithFinalNewline(DataOn(DiskBefore(1), RealTarget))) + 1)

\* C17, as stated: the appended block starts with the section marker exactly
\* when at least one entry is appended: no marker when nothing is appended,
\* a marker whenever something is, also for an empty or absent target
\* (stated for lists without names inherited from Object.prototype)
C17_MarkerIffAppended ==
  (FixSucceeded /\ Calls = 1 /\ Range(call.missingKeys) \cap ObjectPrototypeKeys = {}) =>
    (Includes(AppendedText, MarkerLine)
       <=> AssignmentLines(SplitOn(AppendedText, "\n")) # <<>>)

-----------------------------------------------------------------------------
(* parser.ts: readEnvFile                                                  *)

\* readEnvFile(filePath) on disk d: the ParseResult, or null
readEnvFile(d, filePath) ==
  LET absolutePath == Resolve(Root, filePath)
      rd == readFileSync(d, absolutePath)
  IN  IF ~existsSync(d, absolutePath) THEN Null
      ELSE IF rd.err # "none" THEN Null
      ELSE parseEnv(rd.data)

-----------------------------------------------------------------------------
(* Specification of the template round trip: generateExample writes the    *)
(* template of a source file, readEnvFile parses the source and the        *)
(* template (target and template hold the two results)                     *)

kPort     == <<"P","O","R","T">>
kApiKey   == <<"A","P","I","_","K","E","Y">>
kSecret   == <<"S","E","C","R","E","T">>
kHash     == <<"H","A","S","H">>
kDbPass   == <<"d","b","_","p","a","s","s">>
kToken    == <<"T","O","K","E","N">>

GenLinePool ==
  { kPort \o <<"=","3","0">>,                             \* PORT=30
    kPort \o <<"=","8"," ","#"," ","w">>,                 \* PORT=8 # w
    kApiKey \o <<"=","k"," ","#"," ","c">>,               \* API_KEY=k # c
    <<" "," ">> \o kSecret \o <<" ","="," ","\"","s","\"">>,  \* (2 spaces)SECRET = "s"
    kHash \o <<"=","h">>,                                 \* HASH=h
    kDbPass \o <<"=","p">>,                               \* db_pass=p
    kToken \o <<"=","t","\r">>,                           \* TOKEN=t, then a carriage return
    <<"1","K","E","Y","=","x">>,                          \* 1KEY=x
    <<"2","K","E","Y","=","x","\r">>,                     \* 2KEY=x, then a carriage return
    <<"=","x">>,                                          \* =x
    <<"#"," ","K","E","Y","=","n">>,                      \* # KEY=n
    <<"m","e","m","o">>,                                  \* memo
    <<>> }                                                \* a blank line

GenTexts ==
  { Join(ls, nl) : ls \in SeqsUpTo(GenLinePool, MaxLines) \ {<<>>}, nl \in LineTerminators }

pExample == Resolve(Root, DefaultExamplePath)

InitGenerate ==
  /\ \E text \in GenTexts : disk = (pEnv :> File(text, Mode600))
  /\ \E tp \in {<<"x">>, Undefined} :
       call = [op |-> "generateExample", targetPath |-> tp, missingKeys |-> <<>>,
               exampleEnv |-> Null, sourcePath |-> <<"e">>]
  /\ outcome = [returned |-> "idle", error |-> "none", history |-> <<>>]
  /\ written = {}
  /\ ParserIdle /\ AnalyzerIdle

\* the path generateExample writes for the call
TemplatePathOf(c) == IF c.targetPath = Undefined THEN DefaultExamplePath ELSE c.targetPath

\* readEnvFile on the source
ReadSource ==
  /\ call.op = "generateExample"
  /\ target' = readEnvFile(disk, call.sourcePath)
  /\ UNCHANGED <<template, diff>>
  /\ UNCHANGED <<parserVars, fileVars>>

\* readEnvFile on the template
ReadTemplate ==
  /\ call.op = "generateExample"
  /\ template' = readEnvFile(disk, TemplatePathOf(call))
  /\ UNCHANGED <<target, diff>>
  /\ UNCHANGED <<parserVars, fileVars>>

NextGenerate == GenerateExample \/ ReadSource \/ ReadTemplate

SpecGenerate == InitGenerate /\ [][NextGenerate]_vars

-----------------------------------------------------------------------------
(* Claims about generateExample                                            *)

\* a name holding one of the tokens, compared without regard to letter case
HoldsSensitiveToken(key) ==
  \E token \in SensitivePatterns : Includes(ToUpperCase(key), ToUpperCase(token))

\* the template was written and both files were parsed after that
RoundTripDone ==
  /\ call.op = "generateExample" /\ outcome.returned = "true"
  /\ target # Null /\ template # Null

\* C11, as stated: in the parsed template every sensitive key has an empty
\* value, and every non-sensitive key of the parsed source has the value it
\* has in the source
C11_RoundTrip ==
  RoundTripDone =>
    /\ \A i \in 1..Len(template.variables) :
         HoldsSensitiveToken(template.variables[i].key) => template.variables[i].value = <<>>
    /\ \A i \in 1..Len(target.variables) :
         ~HoldsSensitiveToken(target.variables[i].key) =>
           /\ HasKey(template.variables, target.variables[i].key)
           /\ Get(template.variables, target.variables[i].key).value = target.variables[i].value

\* the first part with sensitivity as isSensitive computes it: violated by
\* the same kind of line, so the violation does not rest on the token list
RoundTripAsComputed ==
  RoundTripDone =>
    \A i \in 1..Len(template.variables) :
      isSensitive(template.variables[i].key) => template.variables[i].value = <<>>

\* the template was written: the lines of the source, and of the template
GenerateSucceeded == call.op = "generateExample" /\ Calls >= 1 /\ outcome.returned = "true"
SourceLines   == SplitLines(DataOn(DiskBefore(1), pEnv))
TemplateLines == SplitOn(DataOn(disk, Resolve(Root, TemplatePathOf(call))), "\n")

\* the text of a line before its first "=", and what the claims say of it
KeyPart(line) == SubSeq(line, 1, IndexOf(line, "=") - 1)
IsBlankOrComment(line) == Trim(line) = <<>> \/ StartsWith(Trim(line), <<"#">>)
HasValidKey(line) ==
  ~IsBlankOrComment(line) /\ IndexOf(line, "=") > 1 /\ IsSafeName(Trim(KeyPart(line)))

\* C19, as stated: every line whose trimmed key is a valid name holding one
\* of the tokens, compared without regard to letter case, is written as the
\* key with its spacing followed by "=" and nothing else
C19_SensitiveBlanked ==
  GenerateSucceeded =>
    \A j \in 1..Len(SourceLines) :
      (HasValidKey(SourceLines[j]) /\ HoldsSensitiveToken(Trim(KeyPart(SourceLines[j])))) =>
        /\ j <= Len(TemplateLines)
        /\ TemplateLines[j] = KeyPart(SourceLines[j]) \o <<"=">>

\* C20: the template has exactly one line per source line, in the same
\* order: every line is the source line or its blanked key, and blank lines,
\* comment lines, lines without "=" and lines whose key is valid and holds
\* no sensitive token are the source line unchanged
C20_OneLinePerSourceLine ==
  GenerateSucceeded =>
    /\ Len(TemplateLines) = Len(SourceLines)
    /\ \A j \in 1..Len(SourceLines) :
         LET line == SourceLines[j]
         IN  /\ TemplateLines[j] \in {line, KeyPart(line) \o <<"=">>}
             /\ ( \/ IsBlankOrComment(line)
                  \/ IndexOf(line, "=") = 0
                  \/ (HasValidKey(line) /\ ~HoldsSensitiveToken(Trim(KeyPart(line)))) )
                  => TemplateLines[j] = line

\* C21, as stated: for every line that holds "=" and is neither blank nor a
\* comment, whose trimmed key (the text before the first "=") fails the
\* variable-name grammar, a warning is emitted and the line is copied
\* unchanged, also when the key holds a sensitive token
C21_InvalidKeyWarned ==
  GenerateSucceeded =>
    \A j \in 1..Len(SourceLines) :
      LET line == SourceLines[j]
      IN  (~IsBlankOrComment(line) /\ IndexOf(line, "=") > 0 /\ ~IsSafeName(Trim(KeyPart(line)))) =>
            /\ TemplateLines[j] = line
            /\ \E w \in Range(warnings) : w.kind = "SkippedInvalidName" /\ w.line = j

\* the part of it that holds: a line the expression key=value matches, whose
\* trimmed key fails the grammar, is warned about and copied unchanged
InvalidKeyWarnedWhenMatched ==
  GenerateSucceeded =>
    \A j \in 1..Len(SourceLines) :
      LET line == SourceLines[j]
      IN  /\ (~IsBlankOrComment(line) /\ Matches(line) /\ ~IsSafeName(Trim(KeyPart(line)))) =>
                /\ TemplateLines[j] = line
                /\ \E w \in Range(warnings) : w.kind = "SkippedInvalidName" /\ w.line = j
          /\ (\E w \in Range(warnings) : w.line = j) => TemplateLines[j] = line

\* a comment line and a variable line with a trailing comment were copied
C20_Witness ==
  /\ GenerateSucceeded
  /\ SourceLines = << <<"#"," ","K","E","Y","=","n">>, kPort \o <<"=","8"," ","#"," ","w">> >>
  /\ TemplateLines = SourceLines

-----------------------------------------------------------------------------
(* Specification of the validators called on their own: call holds the     *)
(* function and its argument, outcome what it returned or threw            *)

MaxNameLen  == 3
MaxSegments == 3

\* a letter outside A-Z, which has no place in a name
EAcute == "<e-acute>"
NameChars == {"A", "z", "_", "7", "-", " ", "."}
\* names of the tests, the reserved names in several letter cases, and
\* every name of up to MaxNameLen characters
NamePool ==
  SeqsUpTo(NameChars, MaxNameLen)
  \cup { kPort, kApiKey, kProtoLower, kProtoMixed, ToUpperCase(kProtoLower),
         kConstructor, ToUpperCase(kConstructor), <<"C","o","n","s","t","r","u","c","t","o","r">>,
         kPrototype, <<"p","r","o","t","o","t","y","p","e">>, kPrototype \o <<"S">>,
         <<"_">> \o kPrototype, kA \o <<"\n">>, <<EAcute>>, kToString }
  \cup { Undefined, NullArg }

PathSegments == { <<".", ".">>, <<".">>, <<"e">>, <<".", ".", "f">>, <<"r">>, <<"r", "x">> }
\* relative and absolute paths of up to MaxSegments segments, and the
\* inputs rejected before resolution
PathPool ==
  { Join(segs, <<"/">>) : segs \in SeqsUpTo(PathSegments, MaxSegments) }
  \cup { <<"/">> \o Join(segs, <<"/">>) : segs \in SeqsUpTo(PathSegments, MaxSegments) }
  \cup { <<"e", NulChar>>, <<".", ".", "/", NulChar>>, Undefined, NullArg }

\* the disks validateFile is called on: the file plain or too large, and a
\* link to a file inside or outside the root, to a file too large on
\* either side, to nothing and to itself
pBig == <<"/","o","/","b">>
OutsideFiles == (pSecret :> File(SecretData, Mode600)) @@ (pBig :> BigFile)
ValidateDisks ==
  { OutsideFiles }
  \cup { (pEnv :> t) @@ OutsideFiles : t \in {File(Existing, Mode644), BigFile} }
  \cup { (pLink :> Link(to)) @@ (pEnv :> t) @@ OutsideFiles :
           to \in {pSecret, pBig, pOutside, pEnv, pLink}, t \in {File(Existing, Mode644), BigFile} }
ValidateFilePaths ==
  { <<"e">>, <<"l">>, <<"n">>, <<".">>, <<".",".","/","o","/","s">>, <<".",".","/","o","/","b">>,
    <<".",".","/","o","/","n">>, <<"e", NulChar>>, <<>>, NullArg }

InitValidate ==
  /\ \/ /\ \E name \in NamePool : call = [op |-> "validateVarName", arg |-> name]
        /\ disk = <<>>
     \/ /\ \E pth \in PathPool : call = [op |-> "validatePath", arg |-> pth]
        /\ disk = <<>>
     \/ /\ \E pth \in ValidateFilePaths, requireExists \in BOOLEAN :
             call = [op |-> "validateFile", arg |-> pth, requireExists |-> requireExists]
        /\ disk \in ValidateDisks
  /\ outcome = NotYet
  /\ written = {}
  /\ ParserIdle /\ AnalyzerIdle

ValidateVarName ==
  /\ call.op = "validateVarName" /\ outcome = NotYet
  /\ outcome' = [returned |-> validateVarName(call.arg), error |-> "none"]
  /\ UNCHANGED <<disk, call, written>>
  /\ UNCHANGED <<parserVars, analyzerVars>>

ValidatePath ==
  /\ call.op = "validatePath" /\ outcome = NotYet
  /\ outcome' = [returned |-> validatePath(call.arg, Root).path,
                 error |-> validatePath(call.arg, Root).err]
  /\ UNCHANGED <<disk, call, written>>
  /\ UNCHANGED <<parserVars, analyzerVars>>

\* validateFile(arg, cwd, requireExists): the path it returns or the error it throws
ValidateFile ==
  /\ call.op = "validateFile" /\ outcome = NotYet
  /\ outcome' = [returned |-> validateFile(disk, call.arg, Root, call.requireExists).path,
                 error |-> validateFile(disk, call.arg, Root, call.requireExists).err]
  /\ UNCHANGED <<disk, call, written>>
  /\ UNCHANGED <<parserVars, analyzerVars>>

NextValidate == ValidateVarName \/ ValidatePath \/ ValidateFile

SpecValidate == InitValidate /\ [][NextValidate]_vars

-----------------------------------------------------------------------------
(* Claims about the validators                                             *)

\* C13: validateVarName returns true exactly for the names that match
\* [A-Za-z_][A-Za-z0-9_]* and are not __PROTO__, CONSTRUCTOR or PROTOTYPE when
\* uppercased, whatever their letter case, and returns false (it has no
\* other outcome) for the empty string, undefined and null
C13_ValidNames ==
  (call.op = "validateVarName" /\ outcome # NotYet) =>
    /\ outcome.error = "none"
    /\ outcome.returned \in BOOLEAN
    /\ outcome.returned = (IsString(call.arg) /\ IsSafeName(call.arg))
    /\ call.arg \in {kProtoLower, kProtoMixed, ToUpperCase(kProtoLower), <<>>, Undefined, NullArg}
         => outcome.returned = FALSE

\* __Proto__ was rejected
C13_Witness ==
  /\ call.op = "validateVarName" /\ outcome # NotYet
  /\ call.arg = kProtoMixed
  /\ outcome.returned = FALSE

\* lies within the root: the root itself or a path below it
InsideRoot(pth) == pth = Root \/ StartsWith(pth, Root \o <<"/">>)

\* C14: validatePath rejects empty and non-string input and input with a
\* null byte before resolving it; otherwise it returns the resolved absolute
\* path when that lies within the root, and rejects with the path-traversal
\* error when it lies outside, a sibling directory named like the root with
\* a suffix included; a component such as ..f inside the root is accepted
C14_PathWithinRoot ==
  (call.op = "validatePath" /\ outcome # NotYet) =>
    LET arg == call.arg IN
    /\ outcome.error = "none" =>
         /\ outcome.returned = Resolve(Root, arg)
         /\ outcome.returned[1] = "/"
         /\ InsideRoot(outcome.returned)
    /\ (~IsString(arg) \/ arg = <<>>) => outcome.error = "InvalidPath"
    /\ (IsString(arg) /\ arg # <<>> /\ Includes(arg, <<NulChar>>)) => outcome.error = "NullByte"
    /\ (IsString(arg) /\ arg # <<>> /\ ~Includes(arg, <<NulChar>>)) =>
         /\ InsideRoot(Resolve(Root, arg)) => outcome.error = "none"
         /\ ~InsideRoot(Resolve(Root, arg)) => outcome.error = "PathTraversal"
    /\ arg = <<".", ".", "/", "r", "x", "/", "e">> => outcome.error = "PathTraversal"
    /\ arg = <<".", ".", "f", "/", "e">> => outcome.error = "none"

\* the sibling ../rx/e was rejected as a traversal
C14_Witness ==
  /\ call.op = "validatePath" /\ outcome # NotYet
  /\ call.arg = <<".", ".", "/", "r", "x", "/", "e">>
  /\ outcome.error = "PathTraversal"

\* C27: validateFile fails with the error of the first failing check in the
\* order path validation, existence (only when the file must exist),
\* symlink containment, size, whatever the later checks would say, and
\* returns the validated absolute path when none fails; a path outside the
\* root that does not exist fails with the path-traversal error
C27_ValidateFileOrder ==
  (call.op = "validateFile" /\ outcome # NotYet) =>
    LET pathError == validatePath(call.arg, Root).err
        absolute  == Resolve(Root, call.arg)
        absent    == call.requireExists /\ ~existsSync(disk, absolute)
        escapes   == validateSymlink(disk, absolute, Root) # "none"
        tooLarge  == validateFileSize(disk, absolute) # "none"
    IN  /\ pathError # "none" => outcome.error = pathError
        /\ (pathError = "none" /\ absent) => outcome.error = "FileNotFound"
        /\ (pathError = "none" /\ ~absent /\ escapes) => outcome.error = "SymlinkEscape"
        /\ (pathError = "none" /\ ~absent /\ ~escapes /\ tooLarge) =>
             outcome.error = "FileTooLarge"
        /\ (pathError = "none" /\ ~absent /\ ~escapes /\ ~tooLarge) =>
             (outcome.error = "none" /\ outcome.returned = absolute)
        /\ (call.arg = <<".",".","/","o","/","n">> /\ call.requireExists) =>
             outcome.error = "PathTraversal"

\* a required path outside the root that does not exist: path traversal
C27_Witness ==
  /\ call.op = "validateFile" /\ outcome # NotYet
  /\ call.arg = <<".",".","/","o","/","n">> /\ call.requireExists
  /\ outcome.error = "PathTraversal"

\* a link to a file outside the root that is too large: the symlink error
C27_WitnessLinkToLarge ==
  /\ call.op = "validateFile" /\ outcome # NotYet
  /\ call.arg = <<"l">> /\ pLink \in DOMAIN disk /\ disk[pLink].to = pBig
  /\ outcome.error = "SymlinkEscape"

-----------------------------------------------------------------------------
(* cli/index.ts: analyzeFile, the check command on one file.  It runs up   *)
(* to the await of askConfirmation, and resumes when the answer arrives.   *)

EXIT_SUCCESS          == 0
EXIT_MISSING_VARS     == 1
EXIT_EXTRA_VARS       == 2
EXIT_SECURITY_WARNING == 3
EXIT_FILE_NOT_FOUND   == 4
EXIT_INVALID_ARGS     == 5

\* exitCode before the fix logic
ExitCodeOf(result, isIgnored) ==
  LET byResult == IF Len(result.missing) > 0 THEN EXIT_MISSING_VARS
                  ELSE IF Len(result.extra) > 0 THEN EXIT_EXTRA_VARS
                  ELSE EXIT_SUCCESS
  IN  IF ~isIgnored /\ byResult = EXIT_SUCCESS THEN EXIT_SECURITY_WARNING ELSE byResult

\* if (options.fix && result.missing.length > 0 && exampleEnv)
FixRequested(options, result, exampleEnv) ==
  options.fix /\ Len(result.missing) > 0 /\ exampleEnv # Null

\* a check that repairs without looking at the answer
Confirmed_ignored(answer) == TRUE

\* if (confirmed)
Confirmed(answer) == answer

\* the fix logic once confirmed is known: what fixEnv did, or nothing
FixLogic(d, targetPath, result, exampleEnv, answer) ==
  IF Confirmed(answer)
    THEN fixEnv(d, targetPath, result.missing, exampleEnv)
    ELSE [returned |-> "cancelled", error |-> "none", disk |-> d, wrote |-> {}]

CheckTargets  == { <<>>, <<"A","=","1","\n">>, <<"A","=","1","\n","B","=","2","\n">> }
CheckExamples == { <<>>, <<"A","=","1","\n","#"," ","c","\n","B","=","x","\n">>, <<"B","=","\"","x","\"">> }
pTemplate     == <<"/","r","/","x">>
pSecond       == <<"/","r","/","f">>

\* the target and the template, each present or not, and a second target
CheckDisks ==
  { t @@ x @@ (pSecond :> File(<<"B","=","2","\n">>, Mode644)) :
      t \in {<<>>} \cup {pEnv :> File(c, Mode644) : c \in CheckTargets},
      x \in {<<>>} \cup {pTemplate :> File(c, Mode644) : c \in CheckExamples} }

\* filesToCheck: the target option, or the files found with --all
CheckFiles ==
  { << <<"e">> >>, << <<".",".","/","o","/","s">> >>, << <<"e">>, <<"f">> >>,
    << <<"f">>, <<"e">> >>, << <<"e">>, <<".",".","/","o","/","s">> >> }

\* the options of the check command; ignored holds the files .gitignore matches
CheckOptions ==
  { [op |-> "check", files |-> fs, examplePath |-> <<"x">>, fix |-> f, ci |-> c,
     json |-> j, quiet |-> q, ignored |-> g] :
      fs \in CheckFiles, f \in BOOLEAN, c \in BOOLEAN, j \in BOOLEAN, q \in BOOLEAN,
      g \in SUBSET { <<"e">>, <<"f">> } }

\* checkGitIgnore(targetPath) for a path validateFile accepted
checkGitIgnore(options, targetPath) == targetPath \in options.ignored

\* runCLI at the start of the loop body for the file-th file
Running(at) ==
  [pc |-> at, file |-> 1, securityWarning |-> FALSE, confirmed |-> "none", success |-> FALSE,
   exitCode |-> EXIT_SUCCESS, exitCodes |-> <<>>, globalExitCode |-> EXIT_SUCCESS,
   exited |-> EXIT_SUCCESS]
\* analyzeFile returns { success, exitCode }
Returned(securityWarning, confirmed, success, exitCode) ==
  [outcome EXCEPT !.pc = "done", !.securityWarning = securityWarning,
                  !.confirmed = confirmed, !.success = success, !.exitCode = exitCode]

\* the file analyzeFile is called on
TargetPath == call.files[outcome.file]

InitCheck ==
  /\ disk \in CheckDisks
  /\ call \in CheckOptions
  /\ outcome = Running("start")
  /\ written = {}
  /\ ParserIdle /\ AnalyzerIdle

\* the end of analyzeFile after the fix logic r: exitCode = EXIT_SUCCESS when
\* fixEnv succeeded
FinishCheck(r, securityWarning, confirmed, success, exitCode) ==
  /\ outcome' = Returned(securityWarning, confirmed, success,
                         IF r.returned = "true" THEN EXIT_SUCCESS ELSE exitCode)
  /\ disk' = r.disk
  /\ written' = written \cup r.wrote

\* analyzeFile from its entry to its return or to the await; targetEnv,
\* exampleEnv and result are target', template' and diff'
AnalyzeFile ==
  /\ outcome.pc = "start"
  /\ IF \/ validateFile(disk, TargetPath, Root, FALSE).err # "none"
        \/ validateFile(disk, call.examplePath, Root, FALSE).err # "none"
       THEN /\ outcome' = Returned(FALSE, "none", FALSE, EXIT_INVALID_ARGS)
            /\ UNCHANGED <<disk, written, analyzerVars>>
       ELSE /\ target' = readEnvFile(disk, TargetPath)
            /\ template' = readEnvFile(disk, call.examplePath)
            /\ IF target' = Null /\ template' = Null
                 THEN /\ outcome' = Returned(~checkGitIgnore(call, TargetPath), "none", FALSE,
                                             EXIT_FILE_NOT_FOUND)
                      /\ UNCHANGED <<disk, written, diff>>
                 ELSE /\ diff' = analyzeEnv(target', template')
                      /\ IF call.json \/ call.quiet \/ ~FixRequested(call, diff', template')
                           THEN /\ outcome' = Returned(~checkGitIgnore(call, TargetPath), "none",
                                                       Len(diff'.missing) = 0,
                                                       ExitCodeOf(diff', checkGitIgnore(call, TargetPath)))
                                /\ UNCHANGED <<disk, written>>
                         ELSE IF call.ci
                           \* const confirmed = options.ci ? false : ...
                           THEN FinishCheck(FixLogic(disk, TargetPath, diff', template', FALSE),
                                            ~checkGitIgnore(call, TargetPath),
                                            "false", Len(diff'.missing) = 0,
                                            ExitCodeOf(diff', checkGitIgnore(call, TargetPath)))
                         ELSE /\ outcome' = [outcome EXCEPT
                                               !.pc = "asking",
                                               !.securityWarning = ~checkGitIgnore(call, TargetPath),
                                               !.confirmed = "none",
                                               !.success = Len(diff'.missing) = 0,
                                               !.exitCode = ExitCodeOf(diff', checkGitIgnore(call, TargetPath))]
                              /\ UNCHANGED <<disk, written>>
  /\ UNCHANGED call
  /\ UNCHANGED parserVars

\* askConfirmation resolves and analyzeFile runs to its return
AskConfirmationReturns ==
  /\ outcome.pc = "asking"
  /\ \E answer \in BOOLEAN :
       FinishCheck(FixLogic(disk, TargetPath, diff, template, answer), outcome.securityWarning,
                   IF answer THEN "true" ELSE "false", outcome.success, outcome.exitCode)
  /\ UNCHANGED call
  /\ UNCHANGED <<parserVars, analyzerVars>>

\* if (result.exitCode > globalExitCode) globalExitCode = result.exitCode
HighestExitCode(globalExitCode, exitCode) ==
  IF exitCode > globalExitCode THEN exitCode ELSE globalExitCode

\* the loop body after analyzeFile returned: track the highest exit code and
\* go on to the next file, or leave the loop
TrackExitCode ==
  /\ outcome.pc = "done"
  /\ outcome' = [outcome EXCEPT
                   !.pc = IF outcome.file < Len(call.files) THEN "start" ELSE "exit",
                   !.file = IF outcome.file < Len(call.files) THEN outcome.file + 1
                            ELSE outcome.file,
                   !.exitCodes = Append(outcome.exitCodes, outcome.exitCode),
                   !.globalExitCode = HighestExitCode(outcome.globalExitCode, outcome.exitCode)]
  /\ UNCHANGED <<disk, call, written>>
  /\ UNCHANGED <<parserVars, analyzerVars>>

\* process.exit(globalExitCode)
ProcessExit ==
  /\ outcome.pc = "exit"
  /\ outcome' = [outcome EXCEPT !.pc = "exited", !.exited = outcome.globalExitCode]
  /\ UNCHANGED <<disk, call, written>>
  /\ UNCHANGED <<parserVars, analyzerVars>>

NextCheck == AnalyzeFile \/ AskConfirmationReturns \/ TrackExitCode \/ ProcessExit

SpecCheck == InitCheck /\ [][NextCheck]_vars

-----------------------------------------------------------------------------
(* Claims about the check command                                          *)

\* C16: in the check command a step changes the disk only when it is the
\* step at which the confirmation returns true, outside CI mode; when the
\* confirmation returned false, and in CI mode, the check of the file wrote
\* nothing
C16_WriteOnlyAfterConfirmation ==
  [][ /\ (disk' # disk \/ written' # written) =>
          (outcome.pc = "asking" /\ outcome'.confirmed = "true" /\ ~call.ci)
      /\ (outcome'.pc = "done" /\ (outcome'.confirmed # "true" \/ call.ci)) =>
          (disk' = disk /\ written' = written) ]_vars

\* the confirmation returned true and the target was written
C16_Witness ==
  /\ call.op = "check" /\ outcome.pc = "done"
  /\ outcome.confirmed = "true"
  /\ written = {pEnv}
  /\ outcome.exitCode = EXIT_SUCCESS

\* the confirmation returned false after the repair was offered
C16_WitnessDeclined ==
  /\ call.op = "check" /\ outcome.pc = "done"
  /\ outcome.confirmed = "false" /\ ~call.ci
  /\ written = {}

\* C30, as stated: a check of a file for which the .gitignore warning was
\* recorded never returns exit code 0, in normal, CI, JSON or quiet mode,
\* with or without a confirmed fix, and the process exits with the highest
\* exit code among the files checked
C30_SecurityWarningExitCode ==
  /\ (call.op = "check" /\ outcome.pc = "done" /\ outcome.securityWarning) =>
       outcome.exitCode # EXIT_SUCCESS
  /\ (call.op = "check" /\ outcome.pc = "exited") =>
       /\ Len(outcome.exitCodes) = Len(call.files)
       /\ outcome.exited = SetMax(Range(outcome.exitCodes))

\* the part of it that holds: without a successful fix the exit code of a
\* check with the warning is not 0, and the process exits with the highest
\* exit code
SecurityWarningWithoutFix ==
  /\ (call.op = "check" /\ outcome.pc = "done" /\ outcome.securityWarning
        /\ ~(outcome.confirmed = "true" /\ written # {})) =>
       outcome.exitCode # EXIT_SUCCESS
  /\ (call.op = "check" /\ outcome.pc = "exited") =>
       /\ Len(outcome.exitCodes) = Len(call.files)
       /\ outcome.exited = SetMax(Range(outcome.exitCodes))

-----------------------------------------------------------------------------
(* Specification of a repair between two checks: readEnvFile on the target *)
(* and the template and analyzeEnv, fixEnv with the missing list, and the  *)
(* same reading and analysis again                                         *)

\* K="aaa...a, a line of MAX_LINE_LENGTH characters whose quote is not closed,
\* and K='aaa...a', a line of the same length whose quote is closed
LongUnterminated ==
  [i \in 1..MAX_LINE_LENGTH |-> IF i = 1 THEN "K" ELSE IF i = 2 THEN "=" ELSE IF i = 3 THEN "\"" ELSE "a"]
LongQuoted ==
  [i \in 1..MAX_LINE_LENGTH |->
     IF i = 1 THEN "K" ELSE IF i = 2 THEN "="
     ELSE IF i = 3 \/ i = MAX_LINE_LENGTH THEN "'" ELSE "a"]

RepairTargets ==
  { <<>>,
    <<"A","=","1","\n">>,
    <<"A","=","o","l","d">>,                                              \* no final newline
    <<"#"," ","c","\n","A","=","1","\n","\n","B","=","\"","o","\"","\n","#"," ","e","n","d">>,
    <<"K","=","1","\n","Z","=","9","\n">>,
    <<"A","=","1","\r","z","\n">> }                                       \* a value with a carriage return
RepairTemplates ==
  { <<"A","=","1","\n","#"," ","c","\n","B","=","x","\n">>,
    <<"B","=","\"","x"," ","y","\""," ","#"," ","d","\n","K","=","'","q","'","\n">>,
    <<"K","=","\"","u">>,                                                 \* K="u
    <<"K","=","v","'","\n","A","=","\n">>,
    <<"#"," ","n","\n","#"," ","m","\n","K","=","'","a","\"","b","'"," ","#"," ","t">>,
    <<>>,
    LongQuoted,
    LongUnterminated }

RepairDisks ==
  { (pEnv :> File(t, Mode600)) @@ (pTemplate :> File(x, Mode644)) :
      t \in RepairTargets, x \in RepairTemplates }
  \cup { (pTemplate :> File(x, Mode644)) : x \in RepairTemplates }

InitRepair ==
  /\ disk \in RepairDisks
  /\ call = [op |-> "repair", targetPath |-> <<"e">>, examplePath |-> <<"x">>]
  /\ outcome = [pc |-> "start", before |-> Null, missing |-> <<>>, returned |-> "idle"]
  /\ written = {}
  /\ ParserIdle /\ AnalyzerIdle

\* targetEnv = readEnvFile(targetPath), exampleEnv = readEnvFile(examplePath),
\* result = analyzeEnv(targetEnv, exampleEnv)
Reconcile ==
  /\ outcome.pc \in {"start", "repaired"}
  /\ target' = readEnvFile(disk, call.targetPath)
  /\ template' = readEnvFile(disk, call.examplePath)
  /\ diff' = analyzeEnv(target', template')
  /\ outcome' = [outcome EXCEPT !.pc = IF outcome.pc = "start" THEN "reconciled" ELSE "rechecked"]
  /\ UNCHANGED <<disk, call, written>>
  /\ UNCHANGED parserVars

\* what fixEnv leaves, with the parse of the target and the list it was given
FinishRepair(r) ==
  /\ disk' = r.disk
  /\ written' = written \cup r.wrote
  /\ outcome' = [pc |-> "repaired", before |-> target, missing |-> diff.missing,
                 returned |-> r.returned]

\* fixEnv(targetPath, result.missing, exampleEnv)
Repair ==
  /\ outcome.pc = "reconciled"
  /\ template # Null
  /\ FinishRepair(fixEnv(disk, call.targetPath, diff.missing, template))
  /\ UNCHANGED call
  /\ UNCHANGED <<parserVars, analyzerVars>>

NextRepair == Reconcile \/ Repair

SpecRepair == InitRepair /\ [][NextRepair]_vars

-----------------------------------------------------------------------------
(* Claims about repair between two checks                                  *)

\* the target was parsed, repaired with the missing list, and parsed again
Rechecked ==
  /\ call.op = "repair" /\ outcome.pc = "rechecked"
  /\ outcome.before # Null /\ outcome.returned = "true"

Converged ==
  /\ target # Null /\ template # Null
  /\ diff.missing = <<>>
  /\ diff.percentage = 100
  /\ \A k \in Range(outcome.missing) :
       /\ HasKey(target.variables, k)
       /\ Get(target.variables, k).value = Get(template.variables, k).value
  /\ \A i \in 1..Len(outcome.before.variables) :
       /\ HasKey(target.variables, outcome.before.variables[i].key)
       /\ Get(target.variables, outcome.before.variables[i].key).value
            = outcome.before.variables[i].value

\* C29, as stated: after a successful repair with the missing list of the
\* first analysis, the second analysis has an empty missing list and
\* percentage 100, each repaired key has the template's value and every key
\* of the original target has its original value
C29_RepairConverges == Rechecked => Converged

\* every template line whose quotation is not closed leaves room for the two
\* quotes the repair puts around its value
UnterminatedFit(tp) ==
  \A i \in 1..Len(tp.variables) :
    LET line == tp.lines[tp.variables[i].line]
    IN  (tp.variables[i].isQuoted /\ ~IsWrapped(RawValueOf(line))) =>
          Len(Trim(line)) + 2 <= MAX_LINE_LENGTH

\* the same for the templates with that room
RepairConvergesWithinLimit == (Rechecked /\ UnterminatedFit(template)) => Converged

\* the same when the target does not exist before the repair
RepairCreatesConverged ==
  ( /\ call.op = "repair" /\ outcome.pc = "rechecked"
    /\ outcome.before = Null /\ outcome.returned = "true"
    /\ UnterminatedFit(template) ) =>
    /\ target # Null
    /\ diff.missing = <<>>
    /\ diff.percentage = 100

====
